---- MODULE Spec2Model ----
(***************************************************************************)
(* A model of the roster bot: the roster sheet (column A = Discord id,     *)
(* column D = team), the members' Discord roles, data/waivers.json, the    *)
(* approval messages (discord.ui.View objects) and the 5-minute waiver     *)
(* expiry loop.  The bot runs on one event loop, so the code between two   *)
(* awaits is atomic.  The waiver-claim views and the expiry loop are cut   *)
(* at their awaits.  For /add, /drop and /trade a click is one action and  *)
(* the approval (sheet write, role calls, waiver record) a second one;     *)
(* a failed role call is modelled where the code branches on its outcome   *)
(* (_finalize_to_free_agent, _apply_claim_award).  Sheet API errors are    *)
(* not modelled.  Time is counted in ticks of 30 minutes.  The league is   *)
(* studied in several specifications, each with the handlers and the       *)
(* starting files of one scenario.                                         *)
(***************************************************************************)
EXTENDS Integers, Sequences, FiniteSets, Bags, TLC

\* ------------------------------------------------------------------------
\* The league: names, members, roles
\* ------------------------------------------------------------------------
FreeAgent == "Free Agent"
Waivers == "Waivers"
RealTeams == {"Kings", "Rangers"}
TEAM_INFO == RealTeams \cup {FreeAgent, Waivers}

\* Holders of the Captains role (capF is a free agent, capX is retired), of
\* the Admins role, and the two players the commands are aimed at.
CaptainIds == {"capK", "capR", "capF", "capX"}
AdminIds == {"adm"}
Targets == {"p", "q"}
Fillers == {"k1", "k2", "r1", "r2"}
SheetIds == CaptainIds \cup Targets \cup Fillers
Channels == {"ch1", "ch2"}

\* Users who issue slash commands and users who click buttons.
Callers == {"capK", "capR", "q"}
ClaimCallers == {"capK", "capR", "capF", "capX", "q"}
Clickers == {"adm", "capK", "capR"}

\* Rows whose column E (captain flag) is TRUE.
CaptainFlag == {"capK", "capR"}

\* The WaiverOrder worksheet (team name -> rank, 1 = highest priority).
WaiverOrder == [t \in RealTeams |-> IF t = "Kings" THEN 1 ELSE 2]

\* The sheet as the process finds it when it starts.
InitSheet ==
    [m \in SheetIds |->
        CASE m \in {"capK", "k1", "k2"} -> "Kings"
          [] m \in {"capR", "r1", "r2"} -> "Rangers"
          [] m = "capX" -> "Retired"
          [] OTHER -> FreeAgent]

\* ------------------------------------------------------------------------
\* Bounds and time
\* ------------------------------------------------------------------------
MaxViews == 2
MaxAdvances == 2
MaxMonotonic == 17
MaxInflight == 1

SecondsPerTick == 30 * 60
WaiverTicks == (2 * 24 * 60 * 60) \div SecondsPerTick
ROSTER_MAX == 4
THROTTLE_SECONDS == 8

\* discord.ui.View timeouts, in ticks.
ViewTimeout(kind) ==
    CASE kind = "add" -> (60 * 60 * 24) \div SecondsPerTick
      [] kind = "drop" -> (60 * 60) \div SecondsPerTick
      [] kind = "trade_captain" -> (60 * 60 * 24) \div SecondsPerTick
      [] kind = "trade_admin" -> (60 * 60 * 24) \div SecondsPerTick
      [] kind = "confirm" -> (60 * 30) \div SecondsPerTick
      [] kind = "admin_claim" -> (60 * 60) \div SecondsPerTick
      [] kind = "sub" -> (60 * 60 * 24) \div SecondsPerTick
      [] OTHER -> 0

VARIABLES
    sheet,      \* roster worksheet: Discord id -> team (column D)
    roles,      \* Discord roles of the two players: id -> set of role names
    waivers,    \* data/waivers.json: player id -> waiver record
    views,      \* the approval messages that are posted: a bag of views
    loop,       \* the process_waiver_expirations task
    now,        \* the clock, in ticks
    reply,      \* on: whether the answers are observed (fixed by Init);
                \* text: the last answer the bot gave to a command or a click
    subs,       \* data/subs.json: a bag of substitution records
    tasks,      \* the removal tasks of the Sub cog that are alive
    booted,     \* whether _rehydrate_subs has run since the process started
    monotonic,      \* time.monotonic(), in seconds
    gate_last_use,  \* _last_use_by_user of bot.py: user -> seconds
    last_use,       \* _last_use_by_user of utils/global_cooldown.py
    handled,        \* user -> the command of the user that last ran in
                    \* this process (an observation)
    inflight,       \* commands on_interaction has passed on and whose
                    \* handlers have not started yet
    server          \* what the admin commands work on: the scheduling
                    \* categories and channels of the guild, the open
                    \* /clearschedule confirmations, data/token.json and
                    \* whether data/salaries.csv was rewritten

cooldown == <<monotonic, gate_last_use, last_use, handled, inflight>>

vars == <<sheet, roles, waivers, views, loop, now, reply, subs, tasks, booted,
          cooldown, server>>

\* An empty dictionary.
NoUse == <<>>

\* A guild without scheduling categories, no token stored, salaries.csv as
\* it was.
QuietServer ==
    [categories |-> {}, channels |-> {}, asks |-> {}, token |-> "",
     refreshed |-> FALSE]

\* The answer an action leaves in reply.
Say(text) == [on |-> reply.on, text |-> IF reply.on THEN text ELSE ""]

\* ------------------------------------------------------------------------
\* Pure helpers
\* ------------------------------------------------------------------------
\* str.strip().lower() on the team names that occur.
lower(s) ==
    CASE s = FreeAgent -> "free agent"
      [] s = Waivers -> "waivers"
      [] s = "Kings" -> "kings"
      [] s = "Rangers" -> "rangers"
      [] OTHER -> s

is_free_agent(value) == lower(value) = "free agent"
is_waivers_team(value) == lower(value) = "waivers"

get_team_role_id(team_name) == team_name \in TEAM_INFO

has_captains_role(u) == u \in CaptainIds
is_admin_member(u) == u \in AdminIds

\* Add._count_team: rows whose team equals team_name exactly.
count_team(values, team_name) ==
    Cardinality({m \in DOMAIN values : values[m] = team_name})

\* WaiverClaim._count_team_players: the same count, compared in lower case.
count_team_players(values, team_name) ==
    Cardinality({m \in DOMAIN values : lower(values[m]) = lower(team_name)})

\* Trade._find_team_captain_id: a row of that team whose captain flag is TRUE.
find_team_captain_id(values, team_name) ==
    IF \E m \in CaptainFlag : values[m] = team_name
    THEN CHOOSE m \in CaptainFlag : values[m] = team_name
    ELSE "none"

\* ------------------------------------------------------------------------
\* Views
\* ------------------------------------------------------------------------
\* A view is its constructor's arguments, the decided flag, the time it
\* was posted and the place its running callback has reached.
NewView(kind, user, p1, p2, t1, t2) ==
    [kind |-> kind, pc |-> "pending", decided |-> FALSE, created |-> now,
     user |-> user, p1 |-> p1, p2 |-> p2, t1 |-> t1, t2 |-> t2]

Posted == BagToSet(views)
HasSlot == BagCardinality(views) < MaxViews

\* The single event loop: while the expiry task runs between two of its
\* awaits, no other handler runs.
EventLoopFree == loop.pc # "run"

\* A button can be pressed while its view is alive and its buttons enabled:
\* from the posting of the message until the handler of an accepted click
\* ends (it disables the buttons last), a suspended handler included.
Clickable(v, kind) ==
    /\ EventLoopFree
    /\ v.kind = kind
    /\ now - v.created < ViewTimeout(kind)

Running(v, kind, pc) ==
    /\ EventLoopFree
    /\ v.kind = kind
    /\ v.pc = pc

Post(w) == views' = views (+) SetToBag({w})
Finish(v) == views' = views (-) SetToBag({v})
Replace(v, w) == views' = (views (-) SetToBag({v})) (+) SetToBag({w})
Goto(v, pc) == Replace(v, [v EXCEPT !.pc = pc])
Decide(v, button) == Replace(v, [v EXCEPT !.decided = TRUE, !.pc = button])

\* ------------------------------------------------------------------------
\* Role updates.  A failed update (discord.Forbidden) is modelled where the
\* code branches on it: in _finalize_to_free_agent and _apply_claim_award.
\* ------------------------------------------------------------------------
\* Add._apply_discord_roles_after_approval
add_roles_after_approval(r, team_name) ==
    LET to_remove == IF FreeAgent \in r THEN {FreeAgent} ELSE {}
        to_add == IF team_name \notin r THEN {team_name} ELSE {}
    IN  (r \ to_remove) \cup to_add

\* Drop._apply_discord_roles_after_approval
drop_roles_after_approval(r, team_name) ==
    LET to_remove == IF team_name \in r THEN {team_name} ELSE {}
        to_add == {FreeAgent, Waivers} \ r
    IN  (r \ to_remove) \cup to_add

\* Trade._apply_role_swap
apply_role_swap(r, old_team, new_team) ==
    LET to_remove == IF old_team \in r THEN {old_team} ELSE {}
        to_add == IF new_team \notin r THEN {new_team} ELSE {}
    IN  (r \ to_remove) \cup to_add

\* _finalize_to_free_agent leaving the Waivers role in place.
C10_FinalizeRolesKeepWaivers(r) == r \cup {FreeAgent}

\* WaiverClaim._finalize_to_free_agent, the role part
finalize_roles(r) == (r \ {Waivers}) \cup {FreeAgent}

\* WaiverClaim._apply_claim_award, the role part
award_roles(r, winning_team) == (r \ {Waivers, FreeAgent}) \cup {winning_team}

\* ------------------------------------------------------------------------
\* /add
\* ------------------------------------------------------------------------
\* The command's checks, in the order of the code; "" when all pass.
AddRefusal(u, p) ==
    CASE ~has_captains_role(u) -> "add: only captains"
      [] u \notin DOMAIN sheet -> "add: captain not in sheet"
      [] ~get_team_role_id(sheet[u]) -> "add: no team role"
      [] p \notin DOMAIN sheet -> "add: player not in sheet"
      [] ~is_free_agent(sheet[p]) -> "add: not a free agent"
      [] count_team(sheet, sheet[u]) >= ROSTER_MAX -> "add: roster full"
      [] OTHER -> ""

AddCmd(u, p) ==
    /\ EventLoopFree
    /\ IF AddRefusal(u, p) # ""
       THEN /\ reply' = Say(AddRefusal(u, p))
            /\ UNCHANGED views
       ELSE /\ HasSlot
            /\ Post(NewView("add", u, p, "", sheet[u], ""))
            /\ reply' = Say("add: submitted")
    /\ UNCHANGED <<sheet, roles, waivers, loop, now, subs, tasks, booted, cooldown, server>>
\* ApprovalView.interaction_check of add.py and drop.py.
AdminCheckRefusal(v, u) ==
    CASE ~is_admin_member(u) -> "only admins"
      [] v.decided -> "already decided"
      [] OTHER -> ""

\* A click on Approve or Reject: interaction_check, then the first statement
\* of the button's callback (self.decided = True), up to the deferral.
AddClick(v, u, button) ==
    /\ Clickable(v, "add")
    /\ IF AdminCheckRefusal(v, u) # ""
       THEN /\ reply' = Say(AdminCheckRefusal(v, u))
            /\ UNCHANGED views
       ELSE /\ Decide(v, button)
            /\ reply' = Say("deferred")
    /\ UNCHANGED <<sheet, roles, waivers, loop, now, subs, tasks, booted, cooldown, server>>
\* The approval's checks with the cap test off by one.
C2_AddApproveRefusalOffByOne(v) ==
    LET c == v.user
        p == v.p1
    IN  CASE c \notin DOMAIN sheet -> "add approval: captain not in sheet"
          [] p \notin DOMAIN sheet -> "add approval: player not in sheet"
          [] ~is_free_agent(sheet[p]) -> "add approval: not a free agent"
          [] count_team(sheet, sheet[c]) > ROSTER_MAX -> "add approval: roster full"
          [] OTHER -> ""

\* Add.ApprovalView.approve after the deferral: the sheet is read again.
AddApproveRefusal(v) ==
    LET c == v.user
        p == v.p1
    IN  CASE c \notin DOMAIN sheet -> "add approval: captain not in sheet"
          [] p \notin DOMAIN sheet -> "add approval: player not in sheet"
          [] ~is_free_agent(sheet[p]) -> "add approval: not a free agent"
          [] count_team(sheet, sheet[c]) >= ROSTER_MAX -> "add approval: roster full"
          [] OTHER -> ""

\* From the deferral to the end of approve: the cell, then the roles.
AddApproveApply(v) ==
    /\ Running(v, "add", "approve")
    /\ IF AddApproveRefusal(v) # ""
       THEN /\ reply' = Say(AddApproveRefusal(v))
            /\ UNCHANGED <<sheet, roles>>
       ELSE /\ sheet' = [sheet EXCEPT ![v.p1] = sheet[v.user]]
            /\ roles' = [roles EXCEPT ![v.p1] =
                            add_roles_after_approval(@, sheet[v.user])]
            /\ reply' = Say("add approval: applied")
    /\ Finish(v)
    /\ UNCHANGED <<waivers, loop, now, subs, tasks, booted, cooldown, server>>
\* A Reject that signs the player all the same.
C26_AddRejectSigns(v) ==
    /\ Running(v, "add", "reject")
    /\ Finish(v)
    /\ sheet' = [sheet EXCEPT ![v.p1] = sheet[v.user]]
    /\ reply' = Say("rejected")
    /\ UNCHANGED <<roles, waivers, loop, now, subs, tasks, booted, cooldown, server>>

AddReject(v) ==
    /\ Running(v, "add", "reject")
    /\ Finish(v)
    /\ reply' = Say("rejected")
    /\ UNCHANGED <<sheet, roles, waivers, loop, now, subs, tasks, booted, cooldown, server>>
\* ------------------------------------------------------------------------
\* data/waivers.json
\* ------------------------------------------------------------------------
NoClaim ==
    [team_name |-> "", team_rank |-> 0, claimed_by_id |-> "",
     origin_channel_id |-> "", confirmed |-> "None"]

\* dict.pop(key, None)
pop(data, key) == [k \in DOMAIN data \ {key} |-> data[k]]

\* data[key] = value
put(data, key, value) ==
    [k \in DOMAIN data \cup {key} |-> IF k = key THEN value ELSE data[k]]

\* Drop._record_waiver: the record of the player is written anew.
record_waiver(data, player_id, requested_at, expires_at, original_team) ==
    put(data, player_id,
        [requested_at |-> requested_at, expires_at |-> expires_at,
         original_team |-> original_team, claim |-> NoClaim])

\* ------------------------------------------------------------------------
\* /drop
\* ------------------------------------------------------------------------
DropRefusal(u, p) ==
    CASE ~has_captains_role(u) -> "drop: only captains"
      [] u \notin DOMAIN sheet -> "drop: captain not in sheet"
      [] ~get_team_role_id(sheet[u]) -> "drop: no team role"
      [] p \notin DOMAIN sheet -> "drop: player not in sheet"
      [] lower(sheet[p]) # lower(sheet[u]) -> "drop: not your player"
      [] OTHER -> ""

DropCmd(u, p) ==
    /\ EventLoopFree
    /\ IF DropRefusal(u, p) # ""
       THEN /\ reply' = Say(DropRefusal(u, p))
            /\ UNCHANGED views
       ELSE /\ HasSlot
            /\ Post(NewView("drop", u, p, "", sheet[u], ""))
            /\ reply' = Say("drop: submitted")
    /\ UNCHANGED <<sheet, roles, waivers, loop, now, subs, tasks, booted, cooldown, server>>
DropClick(v, u, button) ==
    /\ Clickable(v, "drop")
    /\ IF AdminCheckRefusal(v, u) # ""
       THEN /\ reply' = Say(AdminCheckRefusal(v, u))
            /\ UNCHANGED views
       ELSE /\ Decide(v, button)
            /\ reply' = Say("deferred")
    /\ UNCHANGED <<sheet, roles, waivers, loop, now, subs, tasks, booted, cooldown, server>>
\* The approval's checks without the comparison of the two teams.
C3_DropApproveRefusalNoTeamCheck(v) ==
    LET c == v.user
        p == v.p1
    IN  CASE c \notin DOMAIN sheet -> "drop approval: captain not in sheet"
          [] p \notin DOMAIN sheet -> "drop approval: player not in sheet"
          [] OTHER -> ""

DropApproveRefusal(v) ==
    LET c == v.user
        p == v.p1
    IN  CASE c \notin DOMAIN sheet -> "drop approval: captain not in sheet"
          [] p \notin DOMAIN sheet -> "drop approval: player not in sheet"
          [] lower(sheet[p]) # lower(sheet[c]) -> "drop approval: not on captain team"
          [] OTHER -> ""

\* From the deferral to the end of approve: the cell, the roles, then
\* _record_waiver with the window counted from the time of the request (the
\* view carries requested_at_iso).
DropApproveApply(v) ==
    /\ Running(v, "drop", "approve")
    /\ IF DropApproveRefusal(v) # ""
       THEN /\ reply' = Say(DropApproveRefusal(v))
            /\ UNCHANGED <<sheet, roles, waivers>>
       ELSE /\ sheet' = [sheet EXCEPT ![v.p1] = Waivers]
            /\ roles' = [roles EXCEPT ![v.p1] =
                            drop_roles_after_approval(@, sheet[v.user])]
            /\ waivers' = record_waiver(waivers, v.p1, v.created,
                                        v.created + WaiverTicks,
                                        sheet[v.user])
            /\ reply' = Say("drop approval: applied")
    /\ Finish(v)
    /\ UNCHANGED <<loop, now, subs, tasks, booted, cooldown, server>>
DropReject(v) ==
    /\ Running(v, "drop", "reject")
    /\ Finish(v)
    /\ reply' = Say("rejected")
    /\ UNCHANGED <<sheet, roles, waivers, loop, now, subs, tasks, booted, cooldown, server>>
\* ------------------------------------------------------------------------
\* /trade
\* ------------------------------------------------------------------------
TradeRefusal(u, p1, p2) ==
    CASE ~has_captains_role(u) -> "trade: only captains"
      [] p1 = p2 -> "trade: same player"
      [] u \notin CaptainFlag -> "trade: not a captain in sheet"
      [] is_free_agent(sheet[p1]) \/ is_free_agent(sheet[p2])
            \/ is_free_agent(sheet[u]) -> "trade: free agent"
      [] ~get_team_role_id(sheet[p1]) \/ ~get_team_role_id(sheet[p2])
            -> "trade: team not configured"
      [] sheet[p1] # sheet[u] -> "trade: not your player"
      [] sheet[p1] = sheet[p2] -> "trade: same team"
      [] find_team_captain_id(sheet, sheet[p2]) = "none" -> "trade: no captain"
      [] OTHER -> ""

TradeCmd(u, p1, p2) ==
    /\ EventLoopFree
    /\ IF TradeRefusal(u, p1, p2) # ""
       THEN /\ reply' = Say(TradeRefusal(u, p1, p2))
            /\ UNCHANGED views
       ELSE /\ HasSlot
            /\ Post(NewView("trade_captain", find_team_captain_id(sheet, sheet[p2]),
                            p1, p2, sheet[p1], sheet[p2]))
            /\ reply' = Say("trade: submitted")
    /\ UNCHANGED <<sheet, roles, waivers, loop, now, subs, tasks, booted, cooldown, server>>
\* CaptainApprovalView.interaction_check: decided first, then the clicker.
CaptainCheckRefusal(v, u) ==
    CASE v.decided -> "already decided"
      [] u # v.user -> "only the opposing captain"
      [] OTHER -> ""

TradeCaptainClick(v, u, button) ==
    /\ Clickable(v, "trade_captain")
    /\ IF CaptainCheckRefusal(v, u) # ""
       THEN /\ reply' = Say(CaptainCheckRefusal(v, u))
            /\ UNCHANGED views
       ELSE /\ Decide(v, button)
            /\ reply' = Say("deferred")
    /\ UNCHANGED <<sheet, roles, waivers, loop, now, subs, tasks, booted, cooldown, server>>
\* CaptainApprovalView.approve: the request moves on to the admins.
TradeCaptainApprove(v) ==
    /\ Running(v, "trade_captain", "approve")
    /\ Replace(v, NewView("trade_admin", "", v.p1, v.p2, v.t1, v.t2))
    /\ reply' = Say("trade: sent to admins")
    /\ UNCHANGED <<sheet, roles, waivers, loop, now, subs, tasks, booted, cooldown, server>>
\* A Decline that sends the trade on to the admins.
C19_DeclineForwards(v) ==
    /\ Running(v, "trade_captain", "reject")
    /\ Replace(v, NewView("trade_admin", "", v.p1, v.p2, v.t1, v.t2))
    /\ reply' = Say("declined")
    /\ UNCHANGED <<sheet, roles, waivers, loop, now, subs, tasks, booted, cooldown, server>>
\* CaptainApprovalView.decline
TradeCaptainDecline(v) ==
    /\ Running(v, "trade_captain", "reject")
    /\ Finish(v)
    /\ reply' = Say("declined")
    /\ UNCHANGED <<sheet, roles, waivers, loop, now, subs, tasks, booted, cooldown, server>>
\* The check of the admin request of a trade without the admin test.
C17_TradeAdminCheckAnyone(v, u) == IF v.decided THEN "already decided" ELSE ""

\* AdminApprovalView.interaction_check: decided first, then the admin test.
TradeAdminCheckRefusal(v, u) ==
    CASE v.decided -> "already decided"
      [] ~is_admin_member(u) -> "only admins"
      [] OTHER -> ""

TradeAdminClick(v, u, button) ==
    /\ Clickable(v, "trade_admin")
    /\ IF TradeAdminCheckRefusal(v, u) # ""
       THEN /\ reply' = Say(TradeAdminCheckRefusal(v, u))
            /\ UNCHANGED views
       ELSE /\ Decide(v, button)
            /\ reply' = Say("deferred")
    /\ UNCHANGED <<sheet, roles, waivers, loop, now, subs, tasks, booted, cooldown, server>>
\* The approval's checks without the comparison with the recorded teams.
C20_TradeApproveRefusalNoTeamCheck(v) ==
    LET p1 == v.p1
        p2 == v.p2
    IN  CASE is_free_agent(sheet[p1]) \/ is_free_agent(sheet[p2])
                -> "trade approval: free agent"
          [] ~get_team_role_id(sheet[p1]) \/ ~get_team_role_id(sheet[p2])
                -> "trade approval: team not configured"
          [] OTHER -> ""

\* AdminApprovalView.approve after the deferral: the sheet is read again.
TradeApproveRefusal(v) ==
    LET p1 == v.p1
        p2 == v.p2
    IN  CASE is_free_agent(sheet[p1]) \/ is_free_agent(sheet[p2])
                -> "trade approval: free agent"
          [] ~get_team_role_id(sheet[p1]) \/ ~get_team_role_id(sheet[p2])
                -> "trade approval: team not configured"
          [] sheet[p1] # v.t1 \/ sheet[p2] # v.t2
                -> "trade approval: team state changed"
          [] OTHER -> ""

\* From the deferral to the end of approve: the two cells are swapped, then
\* the roles of the two players.
TradeApproveApply(v) ==
    /\ Running(v, "trade_admin", "approve")
    /\ IF TradeApproveRefusal(v) # ""
       THEN /\ reply' = Say(TradeApproveRefusal(v))
            /\ UNCHANGED <<sheet, roles>>
       ELSE /\ sheet' = [sheet EXCEPT ![v.p1] = v.t2,
                                      ![v.p2] = v.t1]
            /\ roles' = [roles EXCEPT
                    ![v.p1] = apply_role_swap(@, v.t1, v.t2),
                    ![v.p2] = apply_role_swap(@, v.t2, v.t1)]
            /\ reply' = Say("trade approval: applied")
    /\ Finish(v)
    /\ UNCHANGED <<waivers, loop, now, subs, tasks, booted, cooldown, server>>
TradeAdminReject(v) ==
    /\ Running(v, "trade_admin", "reject")
    /\ Finish(v)
    /\ reply' = Say("rejected")
    /\ UNCHANGED <<sheet, roles, waivers, loop, now, subs, tasks, booted, cooldown, server>>
\* ------------------------------------------------------------------------
\* /waiverclaim
\* ------------------------------------------------------------------------
get_claim(rec) == rec.claim
has_claim(rec) == rec.claim # NoClaim

\* WaiverClaim._set_claim: a fresh claim, not yet confirmed, saved at once.
set_claim(data, player_id, team_name, team_rank, claimed_by_id, origin_channel_id) ==
    [data EXCEPT ![player_id].claim =
        [team_name |-> team_name, team_rank |-> team_rank,
         claimed_by_id |-> claimed_by_id,
         origin_channel_id |-> origin_channel_id, confirmed |-> "None"]]

\* _load_waiver_order_map().get(team.lower())
waiver_rank(team_name) ==
    IF \E t \in DOMAIN WaiverOrder : lower(t) = lower(team_name)
    THEN WaiverOrder[CHOOSE t \in DOMAIN WaiverOrder : lower(t) = lower(team_name)]
    ELSE 0

\* The command's checks without the test of expires_at.
C6_ClaimRefusalNoExpiry(u, p) ==
    CASE ~has_captains_role(u) -> "claim: only captains"
      [] Waivers \notin roles[p] -> "claim: no waivers role"
      [] ~is_waivers_team(sheet[p]) -> "claim: not on waivers in sheet"
      [] is_free_agent(sheet[u]) \/ is_waivers_team(sheet[u])
            -> "claim: not on a valid team"
      [] waiver_rank(sheet[u]) = 0 -> "claim: team not in waiver order"
      [] p \notin DOMAIN waivers -> "claim: no waiver record"
      [] OTHER -> ""

\* The checks that come before the comparison of claims.
ClaimRefusal(u, p) ==
    CASE ~has_captains_role(u) -> "claim: only captains"
      [] Waivers \notin roles[p] -> "claim: no waivers role"
      [] ~is_waivers_team(sheet[p]) -> "claim: not on waivers in sheet"
      [] is_free_agent(sheet[u]) \/ is_waivers_team(sheet[u])
            -> "claim: not on a valid team"
      [] waiver_rank(sheet[u]) = 0 -> "claim: team not in waiver order"
      [] p \notin DOMAIN waivers -> "claim: no waiver record"
      [] waivers[p].expires_at <= now -> "claim: waivers expired"
      [] OTHER -> ""

\* The comparison with an equal rank replacing the stored claim.
C4_ClaimOutcomeOrEqual(existing, claimant_rank) ==
    CASE existing = NoClaim -> "claim: placed"
      [] existing.team_rank < claimant_rank -> "claim: a higher claim exists"
      [] claimant_rank <= existing.team_rank -> "claim: replaced"
      [] OTHER -> "claim: equal priority"

\* The comparison with the claim that is stored, if any.
ClaimOutcome(existing, claimant_rank) ==
    CASE existing = NoClaim -> "claim: placed"
      [] existing.team_rank < claimant_rank -> "claim: a higher claim exists"
      [] claimant_rank < existing.team_rank -> "claim: replaced"
      [] OTHER -> "claim: equal priority"

WaiverClaimCmd(u, p, ch) ==
    /\ EventLoopFree
    /\ IF ClaimRefusal(u, p) # ""
       THEN /\ reply' = Say(ClaimRefusal(u, p))
            /\ UNCHANGED waivers
       ELSE LET outcome == ClaimOutcome(get_claim(waivers[p]), waiver_rank(sheet[u]))
            IN  /\ reply' = Say(outcome)
                /\ waivers' = IF outcome \in {"claim: placed", "claim: replaced"}
                              THEN set_claim(waivers, p, sheet[u],
                                             waiver_rank(sheet[u]), u, ch)
                              ELSE waivers
    /\ UNCHANGED <<sheet, roles, views, loop, now, subs, tasks, booted, cooldown, server>>
\* ------------------------------------------------------------------------
\* ConfirmClaimView (the claimant's Yes / No after the window has ended)
\* ------------------------------------------------------------------------
ClaimantCheckRefusal(v, u) ==
    CASE v.decided -> "already decided"
      [] u # v.user -> "only the claimant"
      [] OTHER -> ""

ConfirmClick(v, u, button) ==
    /\ Clickable(v, "confirm")
    /\ IF ClaimantCheckRefusal(v, u) # ""
       THEN /\ reply' = Say(ClaimantCheckRefusal(v, u))
            /\ UNCHANGED views
       ELSE /\ Decide(v, button)
            /\ reply' = Say("deferred")
    /\ UNCHANGED <<sheet, roles, waivers, loop, now, subs, tasks, booted, cooldown, server>>
\* The claim of the view's claimant is still the one stored.
claim_is_mine(v) ==
    /\ v.p1 \in DOMAIN waivers
    /\ has_claim(waivers[v.p1])
    /\ waivers[v.p1].claim.claimed_by_id = v.user

\* ConfirmClaimView.yes after the deferral: confirmed = True is saved.
ConfirmYesApply(v) ==
    /\ Running(v, "confirm", "approve")
    /\ IF claim_is_mine(v)
       THEN /\ waivers' = [waivers EXCEPT ![v.p1].claim.confirmed = "True"]
            /\ Goto(v, "send")
            /\ reply' = Say("confirm: sending to admins")
       ELSE /\ UNCHANGED waivers
            /\ Finish(v)
            /\ reply' = Say("confirm: claim no longer yours")
    /\ UNCHANGED <<sheet, roles, loop, now, subs, tasks, booted, cooldown, server>>
\* _send_admin_approval_request posts an AdminApproveView when the file
\* still holds a claim for the player.
can_send_admin_request(player_id) ==
    /\ player_id \in DOMAIN waivers
    /\ has_claim(waivers[player_id])

ConfirmYesSend(v) ==
    /\ Running(v, "confirm", "send")
    /\ IF can_send_admin_request(v.p1)
       THEN Replace(v, NewView("admin_claim", "", v.p1, "", "", ""))
       ELSE Finish(v)
    /\ reply' = Say("confirm: awaiting admin approval")
    /\ UNCHANGED <<sheet, roles, waivers, loop, now, subs, tasks, booted, cooldown, server>>
\* ConfirmClaimView.no after the deferral: confirmed = False is saved, then
\* _finalize_to_free_agent writes the sheet.
ConfirmNoApply(v) ==
    /\ Running(v, "confirm", "reject")
    /\ waivers' = IF claim_is_mine(v)
                  THEN [waivers EXCEPT ![v.p1].claim.confirmed = "False"]
                  ELSE waivers
    /\ sheet' = [sheet EXCEPT ![v.p1] = FreeAgent]
    /\ Goto(v, "roles")
    /\ reply' = Say("decline: sheet updated")
    /\ UNCHANGED <<roles, loop, now, subs, tasks, booted, cooldown, server>>
\* The role update of _finalize_to_free_agent; when it succeeds the record
\* is removed from a freshly loaded file.
ConfirmNoRoles(v, ok) ==
    /\ Running(v, "confirm", "roles")
    /\ roles' = IF ok THEN [roles EXCEPT ![v.p1] = finalize_roles(@)]
                ELSE roles
    /\ waivers' = IF ok THEN pop(waivers, v.p1) ELSE waivers
    /\ Finish(v)
    /\ reply' = Say(IF ok THEN "decline: finalized" ELSE "decline: role issue")
    /\ UNCHANGED <<sheet, loop, now, subs, tasks, booted, cooldown, server>>
\* ------------------------------------------------------------------------
\* AdminApproveView (the admins' Approve / Reject of a confirmed claim)
\* ------------------------------------------------------------------------
ClaimAdminCheckRefusal(v, u) ==
    CASE v.decided -> "already decided"
      [] ~is_admin_member(u) -> "only admins"
      [] OTHER -> ""

ClaimAdminClick(v, u, button) ==
    /\ Clickable(v, "admin_claim")
    /\ IF ClaimAdminCheckRefusal(v, u) # ""
       THEN /\ reply' = Say(ClaimAdminCheckRefusal(v, u))
            /\ UNCHANGED views
       ELSE /\ Decide(v, button)
            /\ reply' = Say("deferred")
    /\ UNCHANGED <<sheet, roles, waivers, loop, now, subs, tasks, booted, cooldown, server>>
\* _apply_claim_award without its roster cap check.
C1_AwardRefusalNoCap(v) ==
    LET p == v.p1
    IN  CASE p \notin DOMAIN waivers -> "award: record missing"
          [] ~has_claim(waivers[p]) -> "award: no claim"
          [] ~is_waivers_team(sheet[p]) -> "award: not on waivers"
          [] OTHER -> ""

\* AdminApproveView.approve and the checks of _apply_claim_award.
AwardRefusal(v) ==
    LET p == v.p1
    IN  CASE p \notin DOMAIN waivers -> "award: record missing"
          [] ~has_claim(waivers[p]) -> "award: no claim"
          [] ~is_waivers_team(sheet[p]) -> "award: not on waivers"
          [] count_team_players(sheet, waivers[p].claim.team_name) >= ROSTER_MAX
                -> "award: roster full"
          [] OTHER -> ""

ClaimApproveApply(v) ==
    /\ Running(v, "admin_claim", "approve")
    /\ IF AwardRefusal(v) # ""
       THEN /\ reply' = Say(AwardRefusal(v))
            /\ Finish(v)
            /\ UNCHANGED sheet
       ELSE /\ sheet' = [sheet EXCEPT ![v.p1] =
                            waivers[v.p1].claim.team_name]
            /\ Replace(v, [v EXCEPT !.pc = "roles",
                                     !.t1 = waivers[v.p1].claim.team_name])
            /\ reply' = Say("award: sheet updated")
    /\ UNCHANGED <<roles, waivers, loop, now, subs, tasks, booted, cooldown, server>>
ClaimApproveRoles(v, ok) ==
    /\ Running(v, "admin_claim", "roles")
    /\ IF ok
       THEN /\ roles' = [roles EXCEPT ![v.p1] = award_roles(@, v.t1)]
            /\ Goto(v, "clear")
            /\ reply' = Say("award: roles updated")
       ELSE /\ UNCHANGED roles
            /\ Finish(v)
            /\ reply' = Say("award: role issue")
    /\ UNCHANGED <<sheet, waivers, loop, now, subs, tasks, booted, cooldown, server>>
\* "Clear record (resolved)": load, pop, save.
ClaimApproveClear(v) ==
    /\ Running(v, "admin_claim", "clear")
    /\ waivers' = pop(waivers, v.p1)
    /\ Finish(v)
    /\ reply' = Say("award: approved")
    /\ UNCHANGED <<sheet, roles, loop, now, subs, tasks, booted, cooldown, server>>
\* AdminApproveView.reject: _finalize_to_free_agent, whatever the file holds.
ClaimRejectApply(v) ==
    /\ Running(v, "admin_claim", "reject")
    /\ sheet' = [sheet EXCEPT ![v.p1] = FreeAgent]
    /\ Goto(v, "rejroles")
    /\ reply' = Say("reject: sheet updated")
    /\ UNCHANGED <<roles, waivers, loop, now, subs, tasks, booted, cooldown, server>>
ClaimRejectRoles(v, ok) ==
    /\ Running(v, "admin_claim", "rejroles")
    /\ roles' = IF ok THEN [roles EXCEPT ![v.p1] = finalize_roles(@)]
                ELSE roles
    /\ waivers' = IF ok THEN pop(waivers, v.p1) ELSE waivers
    /\ Finish(v)
    /\ reply' = Say(IF ok THEN "reject: finalized" ELSE "reject: role issue")
    /\ UNCHANGED <<sheet, loop, now, subs, tasks, booted, cooldown, server>>
\* ------------------------------------------------------------------------
\* /unretire (admins): salary and team "Waivers" in the sheet, the Retired
\* role removed, the Waivers role added.  The handler is one action; its
\* two role calls succeed or fail independently.
\* ------------------------------------------------------------------------
Retired == "Retired"

UnretireRefusal(u) ==
    IF ~is_admin_member(u) THEN "unretire: only admins" ELSE ""

UnretireCmd(u, p, retired_ok, waivers_ok) ==
    /\ EventLoopFree
    /\ IF UnretireRefusal(u) # ""
       THEN /\ reply' = Say(UnretireRefusal(u))
            /\ UNCHANGED <<sheet, roles>>
       ELSE /\ sheet' = [sheet EXCEPT ![p] = Waivers]
            /\ roles' = [roles EXCEPT ![p] =
                    ((IF retired_ok THEN @ \ {Retired} ELSE @)
                        \cup (IF waivers_ok THEN {Waivers} ELSE {}))]
            /\ reply' = Say(IF waivers_ok THEN "unretire: done"
                                          ELSE "unretire: role issue")
    /\ UNCHANGED <<waivers, views, loop, now, subs, tasks, booted, cooldown, server>>
\* ------------------------------------------------------------------------
\* process_waiver_expirations (tasks.loop, every 5 minutes)
\* ------------------------------------------------------------------------
NoData == [k \in {} |-> NoClaim]
IdleLoop == [pc |-> "idle", data |-> NoData, now0 |-> 0, queue |-> <<>>,
             changed |-> FALSE]

\* list(data.items()) of a file written with sorted keys.
TargetOrder == <<"p", "q">>
items(data) == SelectSeq(TargetOrder, LAMBDA k : k \in DOMAIN data)

\* The pass begins: the file is loaded once and the clock is read once.
LoopStart ==
    /\ loop.pc = "idle"
    /\ loop' = IF DOMAIN waivers = {}
               THEN loop
               ELSE [pc |-> "run", data |-> waivers, now0 |-> now,
                     queue |-> items(waivers), changed |-> FALSE]
    /\ reply' = Say("loop: pass")
    /\ UNCHANGED <<sheet, roles, waivers, views, now, subs, tasks, booted, cooldown, server>>
\* What the pass does with the record at the head of the queue.
LoopBranch(rec) ==
    CASE rec.expires_at > loop.now0 -> "skip"
      [] ~has_claim(rec) -> "finalize"
      [] rec.claim.confirmed = "False" -> "finalize"
      [] rec.claim.confirmed = "True" -> "admin"
      [] OTHER -> "prompt"

\* One iteration of the for loop up to its first await, or, with the queue
\* empty, the end of the pass: the copy loaded at the start is saved whole.
LoopStep ==
    /\ loop.pc = "run"
    /\ IF loop.queue = <<>>
       THEN /\ waivers' = IF loop.changed THEN loop.data ELSE waivers
            /\ loop' = IdleLoop
            /\ UNCHANGED sheet
       ELSE LET k == Head(loop.queue)
                b == LoopBranch(loop.data[k])
            IN  /\ UNCHANGED waivers
                /\ CASE b = "skip" ->
                          /\ loop' = [loop EXCEPT !.queue = Tail(@)]
                          /\ UNCHANGED sheet
                     [] b = "finalize" ->
                          /\ sheet' = [sheet EXCEPT ![k] = FreeAgent]
                          /\ loop' = IF finalize_roles(roles[k]) = roles[k]
                                     THEN [loop EXCEPT !.queue = Tail(@),
                                                       !.data = pop(@, k),
                                                       !.changed = TRUE]
                                     ELSE [loop EXCEPT !.pc = "await_roles"]
                     [] b = "admin" ->
                          /\ loop' = IF can_send_admin_request(k)
                                     THEN [loop EXCEPT !.pc = "await_admin"]
                                     ELSE [loop EXCEPT !.queue = Tail(@)]
                          /\ UNCHANGED sheet
                     [] OTHER ->
                          /\ loop' = [loop EXCEPT !.pc = "await_prompt"]
                          /\ UNCHANGED sheet
    /\ reply' = Say("loop: step")
    /\ UNCHANGED <<roles, views, now, subs, tasks, booted, cooldown, server>>
\* _finalize_to_free_agent resumes after its role calls.
LoopFinalizeRoles(ok) ==
    /\ loop.pc = "await_roles"
    /\ LET k == Head(loop.queue)
       IN  IF ok
           THEN /\ roles' = [roles EXCEPT ![k] = finalize_roles(@)]
                /\ loop' = [loop EXCEPT !.pc = "run", !.queue = Tail(@),
                                        !.data = pop(@, k), !.changed = TRUE]
           ELSE /\ UNCHANGED roles
                /\ loop' = [loop EXCEPT !.pc = "run", !.queue = Tail(@)]
    /\ reply' = Say("loop: finalized")
    /\ UNCHANGED <<sheet, waivers, views, now, subs, tasks, booted, cooldown, server>>
\* The admin request has been posted (or the send raised).
LoopAdminSent ==
    /\ loop.pc = "await_admin"
    /\ IF HasSlot
       THEN Post(NewView("admin_claim", "", Head(loop.queue), "", "", ""))
       ELSE UNCHANGED views
    /\ loop' = [loop EXCEPT !.pc = "run", !.queue = Tail(@)]
    /\ reply' = Say("loop: admin request")
    /\ UNCHANGED <<sheet, roles, waivers, now, subs, tasks, booted, cooldown, server>>
\* The prompt has been posted and the pass marks the claim in its copy of
\* the file (or the send raised and nothing is marked).
LoopPromptSent ==
    /\ loop.pc = "await_prompt"
    /\ LET k == Head(loop.queue)
       IN  IF HasSlot
           THEN /\ Post(NewView("confirm", loop.data[k].claim.claimed_by_id,
                                        k, "", "", ""))
                /\ loop' = [loop EXCEPT !.pc = "run", !.queue = Tail(@),
                                        !.data[k].claim.confirmed = "PROMPTED",
                                        !.changed = TRUE]
                /\ reply' = Say("loop: prompt")
           ELSE /\ UNCHANGED views
                /\ loop' = [loop EXCEPT !.pc = "run", !.queue = Tail(@)]
                /\ reply' = Say("loop: prompt failed")
    /\ UNCHANGED <<sheet, roles, waivers, now, subs, tasks, booted, cooldown, server>>
\* ------------------------------------------------------------------------
\* /sub
\* ------------------------------------------------------------------------
\* Eastern wall-clock time in minutes.  The clock of the model starts on a
\* Sunday at 23:00; daylight-saving changes are left out.
MinutesPerTick == SecondsPerTick \div 60
MinutesPerDay == 24 * 60
Sunday == 6
ClockStart == Sunday * MinutesPerDay + 23 * 60

now_et == now * MinutesPerTick

\* datetime.weekday() of a moment (Monday = 0 ... Sunday = 6) and its date,
\* counted in days.
weekday(t) == ((ClockStart + t) \div MinutesPerDay) % 7
date(t) == (ClockStart + t) \div MinutesPerDay

\* _next_sunday_2359: 23:59 of the Sunday of the current week, as a moment
\* of the model's clock.
next_sunday_2359(t) ==
    LET days_until_sunday == (Sunday - weekday(t)) % 7
        target_date == date(t) + days_until_sunday
    IN  target_date * MinutesPerDay + (23 * 60 + 59) - ClockStart

\* Sub._make_sub_key: the guild is the same everywhere, the role is the team.
make_sub_key(user_id, team, expires_at) == <<user_id, team, expires_at>>

\* The record approve writes (the fields the cog reads back).
SubRecord(user_id, team, expires_at) ==
    [user_id |-> user_id, team |-> team, expires_at |-> expires_at,
     key |-> make_sub_key(user_id, team, expires_at)]

\* Sub._add_sub_record and Sub._remove_sub_record_by_key: load, change, save,
\* with no suspension in between: _subs_lock is held over synchronous code
\* only, so acquiring it never waits.
\* A save of the new record alone.
C27_AddOverwrites(file, record) == SetToBag({record})

add_sub_record(file, record) == file (+) SetToBag({record})
remove_sub_record_by_key(file, key) ==
    [r \in {x \in BagToSet(file) : x.key # key} |-> file[r]]

\* Sub._find_active_sub_for_user: is there a record of that user that has
\* not expired?
find_active_sub_for_user(user_id) ==
    \E r \in BagToSet(subs) : r.user_id = user_id /\ r.expires_at > now_et

\* A removal task: a timer registered in _removal_tasks that sleeps until
\* expires_at, or a removal started at once; pc is "sleep" until
\* _remove_role_and_cleanup is entered and "removing" while it waits for
\* member.remove_roles.
RemovalTask(key, kind) == [key |-> key, kind |-> kind, pc |-> "sleep"]

\* Sub._schedule_removal: one timer per key.
schedule_removal(ts, key) ==
    IF \E t \in ts : t.kind = "timer" /\ t.key = key
    THEN ts
    ELSE ts \cup {RemovalTask(key, "timer")}

\* A scan that takes every record for expired.
C15_ExpiredAlways(expires_at) == TRUE

\* The test of _rehydrate_subs that sends a record to immediate removal.
expired(expires_at) == expires_at <= now_et

\* The command's checks, in the order of the code; "" when all pass.
SubRefusal(u, p1, p2) ==
    CASE ~has_captains_role(u) -> "sub: only captains"
      [] p1 = p2 -> "sub: same person"
      [] find_active_sub_for_user(p2) -> "sub: already subbed"
      [] u \notin DOMAIN sheet -> "sub: captain not in sheet"
      [] ~get_team_role_id(sheet[u]) -> "sub: no team role"
      [] p1 \notin DOMAIN sheet -> "sub: player1 not in sheet"
      [] lower(sheet[p1]) # lower(sheet[u]) -> "sub: player1 not on team"
      [] p2 \notin DOMAIN sheet -> "sub: player2 not in sheet"
      [] ~is_free_agent(sheet[p2]) -> "sub: player2 not a free agent"
      [] OTHER -> ""

\* Sub.ApprovalView.__init__: the view keeps the expiry computed by the
\* command.
NewSubView(user, team, p1, p2, expires_at) ==
    [kind |-> "sub", pc |-> "pending", decided |-> FALSE, created |-> now,
     user |-> user, p1 |-> p1, p2 |-> p2, t1 |-> team, t2 |-> "",
     expires_at |-> expires_at]

SubCmd(u, p1, p2) ==
    /\ EventLoopFree
    /\ IF SubRefusal(u, p1, p2) # ""
       THEN /\ reply' = Say(SubRefusal(u, p1, p2))
            /\ UNCHANGED views
       ELSE /\ HasSlot
            /\ Post(NewSubView(u, sheet[u], p1, p2, next_sunday_2359(now_et)))
            /\ reply' = Say("sub: submitted")
    /\ UNCHANGED <<sheet, roles, waivers, loop, now, subs, tasks, booted, cooldown, server>>
\* The check of the sub request without the test of the decided flag.
C18_SubCheckNoDecided(v, u) == IF ~is_admin_member(u) THEN "only admins" ELSE ""

\* Sub.ApprovalView.interaction_check
SubAdminCheckRefusal(v, u) ==
    CASE ~is_admin_member(u) -> "only admins"
      [] v.decided -> "already decided"
      [] OTHER -> ""

SubClick(v, u, button) ==
    /\ Clickable(v, "sub")
    /\ IF SubAdminCheckRefusal(v, u) # ""
       THEN /\ reply' = Say(SubAdminCheckRefusal(v, u))
            /\ UNCHANGED views
       ELSE /\ Decide(v, button)
            /\ reply' = Say("deferred")
    /\ UNCHANGED <<sheet, roles, waivers, loop, now, subs, tasks, booted, cooldown, server>>
\* Sub.ApprovalView.approve after the deferral: subs.json and the sheet are
\* read again.
SubApproveRefusal(v) ==
    CASE find_active_sub_for_user(v.p2) -> "sub approval: already subbed"
      [] v.user \notin DOMAIN sheet -> "sub approval: captain not in sheet"
      [] lower(sheet[v.user]) # lower(v.t1) -> "sub approval: captain team changed"
      [] v.p1 \notin DOMAIN sheet -> "sub approval: player1 not in sheet"
      [] lower(sheet[v.p1]) # lower(v.t1) -> "sub approval: player1 not on team"
      [] v.p2 \notin DOMAIN sheet -> "sub approval: player2 not in sheet"
      [] ~is_free_agent(sheet[v.p2]) -> "sub approval: player2 not a free agent"
      [] ~get_team_role_id(v.t1) -> "sub approval: no team role"
      [] OTHER -> ""

\* The end of approve: the record is appended and its timer scheduled with
\* the expiry the view was built with.
SubStore(v) ==
    /\ subs' = add_sub_record(subs, SubRecord(v.p2, v.t1, v.expires_at))
    /\ tasks' = schedule_removal(tasks, make_sub_key(v.p2, v.t1, v.expires_at))

\* From the deferral to member.add_roles; the call is skipped, and approve
\* runs to its end, when player2 holds the role already.
SubApproveApply(v) ==
    /\ Running(v, "sub", "approve")
    /\ IF SubApproveRefusal(v) # ""
       THEN /\ reply' = Say(SubApproveRefusal(v))
            /\ Finish(v)
            /\ UNCHANGED <<subs, tasks>>
       ELSE IF v.t1 \in roles[v.p2]
       THEN /\ SubStore(v)
            /\ Finish(v)
            /\ reply' = Say("sub approval: applied")
       ELSE /\ Goto(v, "grant")
            /\ reply' = Say("sub approval: adding role")
            /\ UNCHANGED <<subs, tasks>>
    /\ UNCHANGED <<sheet, roles, waivers, loop, now, booted, cooldown, server>>
\* member.add_roles returns (ok) or raises discord.Forbidden.
SubApproveGrant(v, ok) ==
    /\ Running(v, "sub", "grant")
    /\ IF ok
       THEN /\ roles' = [roles EXCEPT ![v.p2] = @ \cup {v.t1}]
            /\ SubStore(v)
            /\ reply' = Say("sub approval: applied")
       ELSE /\ reply' = Say("sub approval: role add failed")
            /\ UNCHANGED <<roles, subs, tasks>>
    /\ Finish(v)
    /\ UNCHANGED <<sheet, waivers, loop, now, booted, cooldown, server>>
SubReject(v) ==
    /\ Running(v, "sub", "reject")
    /\ Finish(v)
    /\ reply' = Say("rejected")
    /\ UNCHANGED <<sheet, roles, waivers, loop, now, subs, tasks, booted, cooldown, server>>
\* The end of _remove_role_and_cleanup: the records of the key leave the
\* file, the key leaves _removal_tasks and its timer is cancelled.  A
\* cancelled timer that is itself waiting for remove_roles runs on to its
\* own cleanup, no longer registered.
cleanup(ts, t) ==
    {IF x.kind = "timer" /\ x.key = t.key THEN [x EXCEPT !.kind = "now"] ELSE x :
        x \in {y \in ts \ {t} : ~(y.kind = "timer" /\ y.key = t.key /\ y.pc = "sleep")}}

\* A timer's sleep ends at expires_at, or a removal started at once gets the
\* processor: _remove_role_and_cleanup up to member.remove_roles.
RemovalStart(t) ==
    /\ EventLoopFree
    /\ t \in tasks
    /\ t.pc = "sleep"
    /\ t.kind = "timer" => t.key[3] <= now_et
    /\ IF t.key[2] \in roles[t.key[1]]
       THEN /\ tasks' = (tasks \ {t}) \cup {[t EXCEPT !.pc = "removing"]}
            /\ UNCHANGED subs
       ELSE /\ subs' = remove_sub_record_by_key(subs, t.key)
            /\ tasks' = cleanup(tasks, t)
    /\ reply' = Say("removal: started")
    /\ UNCHANGED <<sheet, roles, waivers, views, loop, now, booted, cooldown, server>>
\* member.remove_roles returns (ok) or raises; the finally block cleans up.
RemovalFinish(t, ok) ==
    /\ EventLoopFree
    /\ t \in tasks
    /\ t.pc = "removing"
    /\ roles' = [roles EXCEPT ![t.key[1]] = IF ok THEN @ \ {t.key[2]} ELSE @]
    /\ subs' = remove_sub_record_by_key(subs, t.key)
    /\ tasks' = cleanup(tasks, t)
    /\ reply' = Say("removal: finished")
    /\ UNCHANGED <<sheet, waivers, views, loop, now, booted, cooldown, server>>
\* The process stops and starts again: views, timers and the running pass
\* of the expiry task are lost; the sheet, the roles and the files stay.
Restart ==
    /\ views' = EmptyBag
    /\ tasks' = {}
    /\ loop' = IdleLoop
    /\ booted' = FALSE
    /\ reply' = Say("restart")
    /\ gate_last_use' = NoUse
    /\ last_use' = NoUse
    /\ handled' = NoUse
    /\ inflight' = {}
    /\ UNCHANGED <<sheet, roles, waivers, now, subs, monotonic, server>>
\* Sub._rehydrate_subs, once per process: a removal at once for each expired
\* record, a timer for each other record, and the list is saved as loaded.
Rehydrate ==
    /\ EventLoopFree
    /\ ~booted
    /\ booted' = TRUE
    /\ tasks' = tasks
                  \cup {RemovalTask(r.key, "now") :
                          r \in {x \in BagToSet(subs) : expired(x.expires_at)}}
                  \cup {RemovalTask(r.key, "timer") :
                          r \in {x \in BagToSet(subs) :
                                   /\ ~expired(x.expires_at)
                                   /\ ~\E t \in tasks : t.kind = "timer" /\ t.key = x.key}}
    /\ reply' = Say("rehydrated")
    /\ UNCHANGED <<sheet, roles, waivers, views, loop, now, subs, cooldown, server>>
\* ------------------------------------------------------------------------
\* The admin commands
\* ------------------------------------------------------------------------
\* main() in bot.py loads startweek, clearschedule, updateuser and refresh;
\* retire, settoken, token and unretire are taken as loaded through their
\* setup() functions.
\* COMMAND_ACCESS of cogs/help.py
COMMAND_ACCESS ==
    [cmd \in {"startweek", "clearschedule", "refresh", "unretire",
              "updateuser", "retire", "settoken", "token"} |-> "admin"]
    @@ [cmd \in {"add", "drop", "trade", "propose", "confirm", "waiverclaim",
                 "sub"} |-> "captain"]

\* The weeks of utils/schedule.py that the commands below are given.
SCHEDULE == {1, 2}

\* The category /startweek creates its channels in and the category
\* /clearschedule looks for.
StartWeekCategory == "(box) Scheduling (box)"
ClearCategory == "----Scheduling----"

\* One channel stands for the channels of a week: their names begin with
\* week<n>-.
Channel(category, week) == [category |-> category, week |-> week]

\* user_is_admin of settoken.py and token.py, is_admin_user of refresh.py
user_is_admin(u) == u \in AdminIds

\* The permission test of clear_schedule
has_permission(u) == is_admin_member(u) \/ has_captains_role(u)

\* /startweek week_number
StartWeekCmd(u, week_number) ==
    /\ EventLoopFree
    /\ IF ~is_admin_member(u)
       THEN /\ reply' = Say("startweek: no permission")
            /\ UNCHANGED server
       ELSE IF week_number \notin SCHEDULE
       THEN /\ reply' = Say("startweek: no schedule")
            /\ UNCHANGED server
       ELSE /\ server' = [server EXCEPT
                    !.categories = @ \cup {StartWeekCategory},
                    !.channels = @ \cup {Channel(StartWeekCategory, week_number)}]
            /\ reply' = Say("startweek: done")
    /\ UNCHANGED <<sheet, roles, waivers, views, loop, now, subs, tasks, booted,
                   cooldown>>

\* /clearschedule [week_number]; no week number is 0, which the code
\* treats alike.
ClearScheduleCmd(u, week_number) ==
    /\ EventLoopFree
    /\ IF ~has_permission(u)
       THEN /\ reply' = Say("clearschedule: no permission")
            /\ UNCHANGED server
       ELSE IF ClearCategory \notin server.categories
       THEN /\ reply' = Say("clearschedule: no category")
            /\ UNCHANGED server
       ELSE /\ server' = [server EXCEPT
                    !.asks = @ \cup {[user |-> u, week |-> week_number]}]
            /\ reply' = Say("clearschedule: are you sure?")
    /\ UNCHANGED <<sheet, roles, waivers, views, loop, now, subs, tasks, booted,
                   cooldown>>

\* ConfirmClearView.interaction_check
ClearCheckRefusal(a, u) ==
    IF u # a.user THEN "clearschedule: not for you" ELSE ""

\* The channels ConfirmClearView.confirm deletes.
to_delete(a) ==
    {c \in server.channels :
        c.category = ClearCategory /\ (a.week = 0 \/ c.week = a.week)}

\* Confirm on the question a
ClearConfirm(a, u) ==
    /\ EventLoopFree
    /\ a \in server.asks
    /\ IF ClearCheckRefusal(a, u) # ""
       THEN /\ reply' = Say(ClearCheckRefusal(a, u))
            /\ UNCHANGED server
       ELSE /\ server' = [server EXCEPT !.channels = @ \ to_delete(a),
                                        !.asks = @ \ {a}]
            /\ reply' = Say(IF to_delete(a) # {} THEN "clearschedule: deleted"
                                                 ELSE "clearschedule: none found")
    /\ UNCHANGED <<sheet, roles, waivers, views, loop, now, subs, tasks, booted,
                   cooldown>>

\* Cancel on the question a
ClearCancel(a, u) ==
    /\ EventLoopFree
    /\ a \in server.asks
    /\ IF ClearCheckRefusal(a, u) # ""
       THEN /\ reply' = Say(ClearCheckRefusal(a, u))
            /\ UNCHANGED server
       ELSE /\ server' = [server EXCEPT !.asks = @ \ {a}]
            /\ reply' = Say("clearschedule: cancelled")
    /\ UNCHANGED <<sheet, roles, waivers, views, loop, now, subs, tasks, booted,
                   cooldown>>

\* The question a is 30 seconds old.
ClearTimeout(a) ==
    /\ a \in server.asks
    /\ server' = [server EXCEPT !.asks = @ \ {a}]
    /\ UNCHANGED <<sheet, roles, waivers, views, loop, now, reply, subs, tasks,
                   booted, cooldown>>

\* /refresh dry_run (the worksheet is readable and has its headers)
RefreshCmd(u, dry_run) ==
    /\ EventLoopFree
    /\ IF ~user_is_admin(u)
       THEN /\ reply' = Say("refresh: admins only")
            /\ UNCHANGED server
       ELSE IF dry_run
       THEN /\ reply' = Say("refresh: preview")
            /\ UNCHANGED server
       ELSE /\ server' = [server EXCEPT !.refreshed = TRUE]
            /\ reply' = Say("refresh: written")
    /\ UNCHANGED <<sheet, roles, waivers, views, loop, now, subs, tasks, booted,
                   cooldown>>

\* /settoken token
SetTokenCmd(u) ==
    /\ EventLoopFree
    /\ IF ~user_is_admin(u)
       THEN /\ reply' = Say("settoken: no permission")
            /\ UNCHANGED server
       ELSE /\ server' = [server EXCEPT !.token = u]
            /\ reply' = Say("settoken: stored")
    /\ UNCHANGED <<sheet, roles, waivers, views, loop, now, subs, tasks, booted,
                   cooldown>>

\* /token (the stored token has not expired)
TokenCmd(u) ==
    /\ EventLoopFree
    /\ reply' = Say(IF ~user_is_admin(u) THEN "token: no permission"
                    ELSE IF server.token = "" THEN "token: none set"
                    ELSE "token: shown")
    /\ UNCHANGED <<sheet, roles, waivers, views, loop, now, subs, tasks, booted,
                   cooldown, server>>

\* /retire player1; ok: whether member.remove_roles succeeded
RetireCmd(u, p, ok) ==
    /\ EventLoopFree
    /\ IF ~is_admin_member(u)
       THEN /\ reply' = Say("retire: admins only")
            /\ UNCHANGED <<sheet, roles>>
       ELSE /\ sheet' = [sheet EXCEPT ![p] = Retired]
            /\ roles' = [roles EXCEPT ![p] = IF ok THEN @ \ TEAM_INFO ELSE @]
            /\ reply' = Say("retire: done")
    /\ UNCHANGED <<waivers, views, loop, now, subs, tasks, booted, cooldown,
                   server>>

\* /updateuser player team; ok: whether the role calls succeeded
UpdateUserCmd(u, p, team, ok) ==
    /\ EventLoopFree
    /\ IF ~is_admin_member(u)
       THEN /\ reply' = Say("updateuser: admins only")
            /\ UNCHANGED <<sheet, roles>>
       ELSE /\ sheet' = [sheet EXCEPT ![p] = team]
            /\ roles' = [roles EXCEPT ![p] =
                    IF ok THEN apply_role_swap(@, sheet[p], team) ELSE @]
            /\ reply' = Say("updateuser: done")
    /\ UNCHANGED <<waivers, views, loop, now, subs, tasks, booted, cooldown,
                   server>>

\* ------------------------------------------------------------------------
\* The global cooldown
\* ------------------------------------------------------------------------
\* is_admin_user of bot.py and of utils/global_cooldown.py
is_admin_user(u) == u \in AdminIds

\* dict.get(uid, 0.0) and dict[uid] = now
get_use(d, u) == IF u \in DOMAIN d THEN d[u] ELSE 0
set_use(d, u, t) == [x \in DOMAIN d \cup {u} |-> IF x = u THEN t ELSE d[x]]

\* on_interaction: wait_for = THROTTLE_SECONDS - (now - last)
wait_for(u) == THROTTLE_SECONDS - (monotonic - get_use(gate_last_use, u))

\* on_interaction turns the command away.
GateThrottled(u) == ~is_admin_user(u) /\ wait_for(u) > 0

\* check_cooldown returns False.
CheckThrottled(u) ==
    /\ ~is_admin_user(u)
    /\ monotonic - get_use(last_use, u) < THROTTLE_SECONDS

\* A command of u that arrived at the moment at.
Command(u, checks, at) == [user |-> u, checks |-> checks, at |-> at]

\* The command c runs.
Handle(c) ==
    handled' = set_use(handled, c.user,
                   [at |-> c.at,
                    flip |-> IF c.user \in DOMAIN handled
                             THEN ~handled[c.user].flip ELSE TRUE])

\* A slash command of u arrives: on_interaction. The command begins with
\* check_cooldown when checks is TRUE (/help, /profile, /salary, /propose,
\* /refresh, /teaminfo).
SlashCommand(u, checks) ==
    /\ Cardinality(inflight) < MaxInflight
    /\ IF GateThrottled(u)
       THEN /\ reply' = Say("cooldown: wait")
            /\ UNCHANGED <<gate_last_use, inflight>>
       ELSE /\ gate_last_use' = IF is_admin_user(u) THEN gate_last_use
                                 ELSE set_use(gate_last_use, u, monotonic)
            /\ inflight' = inflight \cup {Command(u, checks, monotonic)}
            /\ reply' = Say("command: dispatched")
    /\ UNCHANGED <<sheet, roles, waivers, views, loop, now, subs, tasks, booted,
                   monotonic, last_use, handled, server>>

\* process_application_commands has reached the handler of c, which reads
\* the clock again in check_cooldown.
CommandHandler(c) ==
    /\ c \in inflight
    /\ inflight' = inflight \ {c}
    /\ IF c.checks /\ CheckThrottled(c.user)
       THEN /\ reply' = Say("cooldown: wait (command)")
            /\ UNCHANGED <<last_use, handled>>
       ELSE /\ last_use' = IF c.checks /\ ~is_admin_user(c.user)
                            THEN set_use(last_use, c.user, monotonic)
                            ELSE last_use
            /\ Handle(c)
            /\ reply' = Say("command: ran")
    /\ UNCHANGED <<sheet, roles, waivers, views, loop, now, subs, tasks, booted,
                   monotonic, gate_last_use, server>>

\* time.monotonic() moves on.
Elapse(d) ==
    /\ monotonic + d <= MaxMonotonic
    /\ monotonic' = monotonic + d
    /\ reply' = Say("elapsed")
    /\ UNCHANGED <<sheet, roles, waivers, views, loop, now, subs, tasks, booted,
                   gate_last_use, last_use, handled, inflight, server>>

\* ------------------------------------------------------------------------
\* Time
\* ------------------------------------------------------------------------
Quiescent ==
    /\ loop.pc = "idle"
    /\ \A v \in Posted : v.pc = "pending"

Advances == (now \div WaiverTicks) + (now % WaiverTicks)

\* View.on_timeout: after its timeout a view no longer takes clicks.
timed_out(view, t) == t - view.created >= ViewTimeout(view.kind)

Advance(d) ==
    /\ Quiescent
    /\ Advances < MaxAdvances
    /\ now' = now + d
    /\ views' = [v \in {w \in Posted : ~timed_out(w, now + d)} |-> views[v]]
    /\ reply' = Say("tick")
    /\ UNCHANGED <<sheet, roles, waivers, loop, subs, tasks, booted, cooldown, server>>
\* ------------------------------------------------------------------------
\* What the process finds when it starts
\* ------------------------------------------------------------------------
\* The sheet, the roles and waivers.json outlive the process; views do not.
\* A player is found as a free agent, on a team, or on waivers with the
\* record (and perhaps the claim) an earlier run of the bot left in the file.
Found(team, rs, on_waivers, expires_at, original_team, claim) ==
    [team |-> team, roles |-> rs, on_waivers |-> on_waivers,
     expires_at |-> expires_at, original_team |-> original_team, claim |-> claim]

FoundFree == Found(FreeAgent, {FreeAgent}, FALSE, 0, "", NoClaim)
FoundOn(team) == Found(team, {team}, FALSE, 0, "", NoClaim)
FoundRetired == Found(Retired, {Retired}, FALSE, 0, "", NoClaim)
FoundOnWaivers(original_team, expires_at, claim) ==
    Found(Waivers, {FreeAgent, Waivers}, TRUE, expires_at, original_team, claim)

\* A claim as _set_claim and the two views leave it in the file.
FoundClaim(team_name, claimed_by_id, confirmed) ==
    [team_name |-> team_name, team_rank |-> waiver_rank(team_name),
     claimed_by_id |-> claimed_by_id, origin_channel_id |-> "ch1",
     confirmed |-> confirmed]

StartLeague(fp, fq, log) ==
    LET found == [m \in Targets |-> IF m = "p" THEN fp ELSE fq]
    IN  /\ sheet = [m \in SheetIds |->
                      IF m \in Targets THEN found[m].team ELSE InitSheet[m]]
        /\ roles = [m \in Targets |-> found[m].roles]
        /\ waivers = [m \in {x \in Targets : found[x].on_waivers} |->
                        [requested_at |-> found[m].expires_at - WaiverTicks,
                         expires_at |-> found[m].expires_at,
                         original_team |-> found[m].original_team,
                         claim |-> found[m].claim]]
        /\ views = EmptyBag
        /\ loop = IdleLoop
        /\ now = 0
        /\ reply = [on |-> log, text |-> ""]

\* The process starts when time.monotonic() reads m; its dictionaries are
\* empty.
StartClock(m) ==
    /\ monotonic = m
    /\ gate_last_use = NoUse
    /\ last_use = NoUse
    /\ handled = NoUse
    /\ inflight = {}

\* A start long after the origin of the monotonic clock.
LateStart == 10 * THROTTLE_SECONDS

\* A start with an empty data/subs.json: _rehydrate_subs finds nothing.
StartWith(fp, fq, log) ==
    /\ StartLeague(fp, fq, log)
    /\ subs = EmptyBag
    /\ tasks = {}
    /\ booted = TRUE
    /\ StartClock(LateStart)
    /\ server = QuietServer

\* ------------------------------------------------------------------------
\* The handlers, grouped by cog
\* ------------------------------------------------------------------------
Buttons == {"approve", "reject"}

AddActions(T) ==
    \/ \E u \in Callers, p \in T : AddCmd(u, p)
    \/ \E v \in Posted, u \in Clickers, b \in Buttons : AddClick(v, u, b)
    \/ \E v \in Posted : AddApproveApply(v)
    \/ \E v \in Posted : AddReject(v)

DropActions(T) ==
    \/ \E u \in Callers, p \in T : DropCmd(u, p)
    \/ \E v \in Posted, u \in Clickers, b \in Buttons : DropClick(v, u, b)
    \/ \E v \in Posted : DropApproveApply(v)
    \/ \E v \in Posted : DropReject(v)

TradeActions(T) ==
    \/ \E u \in Callers, p1 \in T, p2 \in T : TradeCmd(u, p1, p2)
    \/ \E v \in Posted, u \in Clickers, b \in Buttons : TradeCaptainClick(v, u, b)
    \/ \E v \in Posted : TradeCaptainApprove(v)
    \/ \E v \in Posted : TradeCaptainDecline(v)
    \/ \E v \in Posted, u \in Clickers, b \in Buttons : TradeAdminClick(v, u, b)
    \/ \E v \in Posted : TradeApproveApply(v)
    \/ \E v \in Posted : TradeAdminReject(v)

SubActions(P1, P2) ==
    \/ \E u \in Callers, p1 \in P1, p2 \in P2 : SubCmd(u, p1, p2)
    \/ \E v \in Posted, u \in Clickers, b \in Buttons : SubClick(v, u, b)
    \/ \E v \in Posted : SubApproveApply(v)
    \/ \E v \in Posted, ok \in BOOLEAN : SubApproveGrant(v, ok)
    \/ \E v \in Posted : SubReject(v)

RemovalActions ==
    \/ \E t \in tasks : RemovalStart(t)
    \/ \E t \in tasks, ok \in BOOLEAN : RemovalFinish(t, ok)

ProcessActions ==
    \/ Restart
    \/ Rehydrate

ClaimCommand(T, C) ==
    \E u \in ClaimCallers, p \in T, ch \in C : WaiverClaimCmd(u, p, ch)

ConfirmActions ==
    \/ \E v \in Posted, u \in Clickers, b \in Buttons : ConfirmClick(v, u, b)
    \/ \E v \in Posted : ConfirmYesApply(v)
    \/ \E v \in Posted : ConfirmYesSend(v)
    \/ \E v \in Posted : ConfirmNoApply(v)
    \/ \E v \in Posted, ok \in BOOLEAN : ConfirmNoRoles(v, ok)

AdminClaimActions ==
    \/ \E v \in Posted, u \in Clickers, b \in Buttons : ClaimAdminClick(v, u, b)
    \/ \E v \in Posted : ClaimApproveApply(v)
    \/ \E v \in Posted, ok \in BOOLEAN : ClaimApproveRoles(v, ok)
    \/ \E v \in Posted : ClaimApproveClear(v)
    \/ \E v \in Posted : ClaimRejectApply(v)
    \/ \E v \in Posted, ok \in BOOLEAN : ClaimRejectRoles(v, ok)

LoopActions ==
    \/ LoopStart
    \/ LoopStep
    \/ \E ok \in BOOLEAN : LoopFinalizeRoles(ok)
    \/ LoopAdminSent
    \/ LoopPromptSent

TimeActions == \E d \in {1, WaiverTicks} : Advance(d)

\* ------------------------------------------------------------------------
\* The whole bot, started on a league with nobody on waivers
\* ------------------------------------------------------------------------
\* The five cogs are taken as loaded through their setup() functions (the
\* extension list of main() in bot.py does not name them).
Init ==
    \E fp \in {FoundFree, FoundOn("Kings")}, fq \in {FoundFree, FoundOn("Rangers")} :
        StartWith(fp, fq, FALSE)

Next ==
    \/ AddActions(Targets)
    \/ DropActions(Targets)
    \/ TradeActions(Targets)
    \/ ClaimCommand(Targets, Channels)
    \/ ConfirmActions
    \/ AdminClaimActions
    \/ LoopActions
    \/ SubActions(Fillers, Targets)
    \/ RemovalActions
    \/ ProcessActions
    \/ TimeActions

Spec == Init /\ [][Next]_vars

\* ------------------------------------------------------------------------
\* The roster commands alone, with the answers observed
\* ------------------------------------------------------------------------
InitRoster ==
    \E fp \in {FoundFree, FoundOn("Kings")}, fq \in {FoundFree, FoundOn("Rangers")} :
        StartWith(fp, fq, TRUE)

NextRoster ==
    \/ AddActions(Targets)
    \/ DropActions(Targets)
    \/ TradeActions(Targets)

SpecRoster == InitRoster /\ [][NextRoster]_vars

\* ------------------------------------------------------------------------
\* The roster commands next to the admins' approval of confirmed claims
\* ------------------------------------------------------------------------
\* p is found on its team or on waivers with a claim its claimant has
\* confirmed; the loop posts the admin request for such a claim on each pass.
ConfirmedClaims ==
    {FoundClaim(t, find_team_captain_id(InitSheet, t), "True") : t \in RealTeams}

InitAwards ==
    \E fp \in {FoundOn("Kings")} \cup
              {FoundOnWaivers("Kings", 0, c) : c \in ConfirmedClaims},
       fq \in {FoundFree, FoundOn("Rangers")} :
        StartWith(fp, fq, FALSE)

NextAwards ==
    \/ AddActions(Targets)
    \/ DropActions(Targets)
    \/ TradeActions(Targets)
    \/ AdminClaimActions
    \/ LoopStart
    \/ LoopStep
    \/ LoopAdminSent

SpecAwards == InitAwards /\ [][NextAwards]_vars

\* ------------------------------------------------------------------------
\* One waiver window: the drop, the claims and the clock
\* ------------------------------------------------------------------------
\* p is found on its team, or in a state a failed role update or an admin
\* override left behind: on waivers in the sheet with no record, on waivers
\* without the Waivers role, or with a record but a team in the sheet.
InitWindow ==
    \E fp \in {FoundOn("Kings"),
                Found(Waivers, {FreeAgent, Waivers}, FALSE, 0, "", NoClaim),
                Found(Waivers, {"Kings"}, TRUE, WaiverTicks, "Kings", NoClaim),
                Found("Rangers", {FreeAgent, Waivers}, TRUE, WaiverTicks, "Kings",
                      NoClaim)} :
        StartWith(fp, FoundFree, TRUE)

NextWindow ==
    \/ DropActions({"p"})
    \/ ClaimCommand({"p"}, Channels)
    \/ TimeActions

SpecWindow == InitWindow /\ [][NextWindow]_vars

\* ------------------------------------------------------------------------
\* After the window: the loop, the claimant's answer, the admins' answer
\* ------------------------------------------------------------------------
\* p is found on waivers with its window ended, unclaimed or claimed.
OpenClaims ==
    {FoundClaim(t, find_team_captain_id(InitSheet, t), "None") : t \in RealTeams}

InitExpiry ==
    \E fp \in {FoundOnWaivers("Kings", 0, c) : c \in OpenClaims \cup {NoClaim}} :
        StartWith(fp, FoundFree, FALSE)

NextExpiry ==
    \/ DropActions({"p"})
    \/ ClaimCommand({"p"}, {"ch1"})
    \/ ConfirmActions
    \/ AdminClaimActions
    \/ LoopActions

SpecExpiry == InitExpiry /\ [][NextExpiry]_vars

\* ------------------------------------------------------------------------
\* The answers to an expired claim, observed
\* ------------------------------------------------------------------------
\* p is found on waivers with its window ended and a claim that was not yet
\* prompted; the answers of the bot are observed.
InitDecline ==
    \E c \in OpenClaims :
        StartWith(FoundOnWaivers("Kings", 0, c), FoundFree, TRUE)

NextDecline ==
    \/ ConfirmActions
    \/ AdminClaimActions
    \/ LoopActions

SpecDecline == InitDecline /\ [][NextDecline]_vars

\* ------------------------------------------------------------------------
\* A pass of the loop next to claims on a window that is still open
\* ------------------------------------------------------------------------
\* p is found with its window ended and no claim, q in the middle of its
\* window, unclaimed or claimed; either was dropped by either team.
InitPass ==
    \E tp \in RealTeams, tq \in RealTeams, c \in OpenClaims \cup {NoClaim} :
        StartWith(FoundOnWaivers(tp, 0, NoClaim),
                  FoundOnWaivers(tq, WaiverTicks, c), FALSE)

NextPass ==
    \/ ClaimCommand(Targets, Channels)
    \/ LoopStart
    \/ LoopStep
    \/ \E ok \in BOOLEAN : LoopFinalizeRoles(ok)

SpecPass == InitPass /\ [][NextPass]_vars

\* ------------------------------------------------------------------------
\* A window that ends with nobody answering
\* ------------------------------------------------------------------------
\* p is found on waivers in the middle of its window, unclaimed or claimed,
\* or after its window with a claim the claimant confirmed in an earlier
\* run.  Captains may claim; nobody clicks a button.  The loop runs every
\* five minutes (tasks.loop), the clock advances, and every sheet and
\* Discord call succeeds.
InitUnanswered ==
    \/ \E t \in RealTeams, c \in OpenClaims \cup {NoClaim} :
          StartWith(FoundOnWaivers(t, WaiverTicks, c), FoundFree, FALSE)
    \/ \E t \in RealTeams, c \in ConfirmedClaims :
          StartWith(FoundOnWaivers(t, 0, c), FoundFree, FALSE)

LoopRuns ==
    \/ LoopStart
    \/ LoopStep
    \/ LoopFinalizeRoles(TRUE)
    \/ LoopAdminSent
    \/ LoopPromptSent

NextUnanswered ==
    \/ ClaimCommand({"p"}, Channels)
    \/ LoopRuns
    \/ TimeActions

SpecUnanswered ==
    /\ InitUnanswered
    /\ [][NextUnanswered]_vars
    /\ WF_vars(LoopRuns)
    /\ WF_vars(TimeActions)

\* ------------------------------------------------------------------------
\* A retired player comes back
\* ------------------------------------------------------------------------
\* p is found retired; q is found on waivers, unclaimed, in the middle of
\* its window.  Admins run /unretire, captains claim p, the loop runs and
\* time passes.
InitUnretire ==
    \E t \in RealTeams :
        StartWith(FoundRetired, FoundOnWaivers(t, WaiverTicks, NoClaim), TRUE)

NextUnretire ==
    \/ \E u \in Clickers, retired_ok \in BOOLEAN, waivers_ok \in BOOLEAN :
          UnretireCmd(u, "p", retired_ok, waivers_ok)
    \/ ClaimCommand({"p"}, {"ch1"})
    \/ LoopStart
    \/ LoopStep
    \/ \E ok \in BOOLEAN : LoopFinalizeRoles(ok)
    \/ TimeActions

SpecUnretire == InitUnretire /\ [][NextUnretire]_vars

\* ------------------------------------------------------------------------
\* Substitutions: two captains ask for the free agent q near the end of a
\* Sunday, with restarts
\* ------------------------------------------------------------------------
\* q is found as a free agent, with or without the record and the role of a
\* substitution for the Kings that an earlier run approved.
FoundSubbed(team) == Found(FreeAgent, {FreeAgent, team}, FALSE, 0, "", NoClaim)

InitSubs ==
    \/ /\ StartLeague(FoundFree, FoundFree, FALSE)
       /\ subs = EmptyBag
       /\ tasks = {}
       /\ booted = FALSE
       /\ StartClock(LateStart)
       /\ server = QuietServer
    \/ /\ StartLeague(FoundFree, FoundSubbed("Kings"), FALSE)
       /\ subs = SetToBag({SubRecord("q", "Kings", next_sunday_2359(0))})
       /\ tasks = {}
       /\ booted = FALSE
       /\ StartClock(LateStart)
       /\ server = QuietServer

NextSubs ==
    \/ SubActions({"k1", "r1"}, {"q"})
    \/ RemovalActions
    \/ ProcessActions
    \/ TimeActions

SpecSubs == InitSubs /\ [][NextSubs]_vars

\* ------------------------------------------------------------------------
\* All the approval messages, with clicks by admins and captains, observed
\* ------------------------------------------------------------------------
\* p is found on the Kings next to the free agent q, or on waivers with its
\* window ended and a claim, next to q on the Rangers; admins and captains
\* click on whatever is posted.
InitButtons ==
    \/ StartWith(FoundOn("Kings"), FoundFree, TRUE)
    \/ \E c \in OpenClaims :
          StartWith(FoundOnWaivers("Kings", 0, c), FoundOn("Rangers"), TRUE)

\* One request of each kind, each by the captain who may make it.
NextButtons ==
    \/ AddCmd("capR", "q")
    \/ DropCmd("capK", "p")
    \/ TradeCmd("capK", "p", "q")
    \/ SubCmd("capK", "k1", "q")
    \/ \E v \in Posted, u \in Clickers, b \in Buttons : AddClick(v, u, b)
    \/ \E v \in Posted : AddApproveApply(v)
    \/ \E v \in Posted : AddReject(v)
    \/ \E v \in Posted, u \in Clickers, b \in Buttons : DropClick(v, u, b)
    \/ \E v \in Posted : DropApproveApply(v)
    \/ \E v \in Posted : DropReject(v)
    \/ \E v \in Posted, u \in Clickers, b \in Buttons : TradeCaptainClick(v, u, b)
    \/ \E v \in Posted : TradeCaptainApprove(v)
    \/ \E v \in Posted : TradeCaptainDecline(v)
    \/ \E v \in Posted, u \in Clickers, b \in Buttons : TradeAdminClick(v, u, b)
    \/ \E v \in Posted : TradeApproveApply(v)
    \/ \E v \in Posted : TradeAdminReject(v)
    \/ \E v \in Posted, u \in Clickers, b \in Buttons : SubClick(v, u, b)
    \/ \E v \in Posted : SubApproveApply(v)
    \/ \E v \in Posted, ok \in BOOLEAN : SubApproveGrant(v, ok)
    \/ \E v \in Posted : SubReject(v)
    \/ ConfirmActions
    \/ AdminClaimActions
    \/ LoopActions

SpecButtons == InitButtons /\ [][NextButtons]_vars

\* ------------------------------------------------------------------------
\* The cooldown alone: a captain and an admin send commands
\* ------------------------------------------------------------------------
\* The process starts at the origin of the monotonic clock, shortly after
\* it, or later.
StartClocks == {0, 3, 2 * THROTTLE_SECONDS}

CooldownUsers == {"capK", "adm"}

InitCooldown ==
    \E m \in StartClocks :
        /\ StartLeague(FoundFree, FoundFree, TRUE)
        /\ subs = EmptyBag
        /\ tasks = {}
        /\ booted = TRUE
        /\ StartClock(m)
        /\ server = QuietServer

NextCooldown ==
    \/ \E u \in CooldownUsers, checks \in BOOLEAN : SlashCommand(u, checks)
    \/ \E c \in inflight : CommandHandler(c)
    \/ \E d \in {1, THROTTLE_SECONDS - 1, THROTTLE_SECONDS} : Elapse(d)
    \/ Restart

SpecCooldown == InitCooldown /\ [][NextCooldown]_vars

\* ------------------------------------------------------------------------
\* The admin commands: an admin, a captain and a player run them
\* ------------------------------------------------------------------------
Staff == {"adm", "capK", "q"}

\* The guild has no scheduling category, or has the one /clearschedule
\* looks for with the channels of two weeks in it.
InitAdmin ==
    /\ StartLeague(FoundOn("Kings"), FoundFree, TRUE)
    /\ subs = EmptyBag
    /\ tasks = {}
    /\ booted = TRUE
    /\ StartClock(LateStart)
    /\ \/ server = QuietServer
       \/ server = [QuietServer EXCEPT
                       !.categories = {ClearCategory},
                       !.channels = {Channel(ClearCategory, 1),
                                     Channel(ClearCategory, 2)}]

NextAdmin ==
    \/ \E u \in Staff, w \in {1, 3} : StartWeekCmd(u, w)
    \/ \E u \in Staff, w \in {0, 1} : ClearScheduleCmd(u, w)
    \/ \E u \in Staff, a \in server.asks : ClearConfirm(a, u)
    \/ \E u \in Staff, a \in server.asks : ClearCancel(a, u)
    \/ \E a \in server.asks : ClearTimeout(a)
    \/ \E u \in Staff, dry_run \in BOOLEAN : RefreshCmd(u, dry_run)
    \/ \E u \in Staff : SetTokenCmd(u)
    \/ \E u \in Staff : TokenCmd(u)
    \/ \E u \in Staff, ok \in BOOLEAN : RetireCmd(u, "p", ok)
    \/ \E u \in Staff, ok \in BOOLEAN : UpdateUserCmd(u, "p", "Rangers", ok)
    \/ \E u \in Staff, retired_ok \in BOOLEAN, waivers_ok \in BOOLEAN :
          UnretireCmd(u, "p", retired_ok, waivers_ok)

SpecAdmin == InitAdmin /\ [][NextAdmin]_vars

\* ------------------------------------------------------------------------
\* Requests that are approved, rejected, declined or left to time out
\* ------------------------------------------------------------------------
InitRequests == StartWith(FoundOn("Kings"), FoundFree, TRUE)

NextRequests ==
    \/ AddCmd("capR", "q")
    \/ DropCmd("capK", "p")
    \/ TradeCmd("capK", "p", "q")
    \/ SubCmd("capK", "k1", "q")
    \/ \E v \in Posted, u \in {"adm"}, b \in Buttons : AddClick(v, u, b)
    \/ \E v \in Posted : AddApproveApply(v)
    \/ \E v \in Posted : AddReject(v)
    \/ \E v \in Posted, u \in {"adm"}, b \in Buttons : DropClick(v, u, b)
    \/ \E v \in Posted : DropApproveApply(v)
    \/ \E v \in Posted : DropReject(v)
    \/ \E v \in Posted, u \in {"capR"}, b \in Buttons : TradeCaptainClick(v, u, b)
    \/ \E v \in Posted : TradeCaptainApprove(v)
    \/ \E v \in Posted : TradeCaptainDecline(v)
    \/ \E v \in Posted, u \in {"adm"}, b \in Buttons : TradeAdminClick(v, u, b)
    \/ \E v \in Posted : TradeApproveApply(v)
    \/ \E v \in Posted : TradeAdminReject(v)
    \/ \E v \in Posted, u \in {"adm"}, b \in Buttons : SubClick(v, u, b)
    \/ \E v \in Posted : SubApproveApply(v)
    \/ \E v \in Posted, ok \in BOOLEAN : SubApproveGrant(v, ok)
    \/ \E v \in Posted : SubReject(v)
    \/ RemovalActions
    \/ TimeActions

SpecRequests == InitRequests /\ [][NextRequests]_vars

AddBlocked(captain, player) ==
    \/ count_team(sheet, sheet[captain]) >= ROSTER_MAX
    \/ sheet[player] # FreeAgent

\* C2. Under SpecRoster, whenever the sheet shows the captain's team with 4
\* or more rows or the target on anything but Free Agent, an /add posts no
\* approval request and an Approve click applies nothing: the sheet and the
\* roles stay as they are and the answer is a refusal.
C2_AddRefused ==
    [][ /\ \A u \in Callers, p \in Targets :
              (AddCmd(u, p) /\ AddBlocked(u, p)) =>
                  /\ views' = views /\ sheet' = sheet /\ roles' = roles
                  /\ reply'.text # "add: submitted"
        /\ \A v \in Posted :
              (AddApproveApply(v) /\ AddBlocked(v.user, v.p1)) =>
                  /\ sheet' = sheet /\ roles' = roles
                  /\ reply'.text # "add approval: applied"
      ]_vars

\* An approval refused because the team filled up after the request.
C2_Witness ==
    /\ reply.text = "add approval: roster full"
    /\ \E t \in RealTeams : count_team(sheet, t) = ROSTER_MAX

\* ------------------------------------------------------------------------
\* C3: dropping a non-roster player is rejected
\* ------------------------------------------------------------------------
DropBlocked(captain, player) == sheet[player] # sheet[captain]

\* C3. Under SpecRoster, whenever the sheet shows the target on a team other
\* than the requesting captain's, a /drop posts no approval request and an
\* Approve click applies nothing: the sheet, the roles and waivers.json stay
\* as they are and the answer is a refusal.
C3_DropRefused ==
    [][ /\ \A u \in Callers, p \in Targets :
              (DropCmd(u, p) /\ DropBlocked(u, p)) =>
                  /\ views' = views /\ sheet' = sheet /\ roles' = roles
                  /\ waivers' = waivers
                  /\ reply'.text # "drop: submitted"
        /\ \A v \in Posted :
              (DropApproveApply(v) /\ DropBlocked(v.user, v.p1)) =>
                  /\ sheet' = sheet /\ roles' = roles /\ waivers' = waivers
                  /\ reply'.text # "drop approval: applied"
      ]_vars

\* An approval refused because the player left the team after the request.
C3_Witness ==
    /\ reply.text = "drop approval: not on captain team"
    /\ \E p \in Targets : sheet[p] \in RealTeams \cup {Waivers}

\* ------------------------------------------------------------------------
\* C6: what /waiverclaim requires
\* ------------------------------------------------------------------------
\* The conditions of the claim, read off the sheet, the roles, the file and
\* the clock at call time.
ClaimAllowed(caller, player) ==
    /\ caller \in CaptainIds
    /\ sheet[caller] \in RealTeams
    /\ Waivers \in roles[player]
    /\ sheet[player] = Waivers
    /\ player \in DOMAIN waivers
    /\ now < waivers[player].expires_at

\* C6. Under SpecWindow a /waiverclaim call made while one of the conditions
\* fails leaves waivers.json as it is.
C6_ClaimOnlyIfAllowed ==
    [][ \A u \in ClaimCallers, p \in Targets, ch \in Channels :
            (WaiverClaimCmd(u, p, ch) /\ ~ClaimAllowed(u, p)) => waivers' = waivers
      ]_vars

\* A call refused only because the window had ended: every other condition
\* holds for some captain.
C6_Witness ==
    /\ reply.text = "claim: waivers expired"
    /\ \E p \in Targets :
          /\ p \in DOMAIN waivers /\ waivers[p].expires_at <= now
          /\ Waivers \in roles[p] /\ sheet[p] = Waivers

\* ------------------------------------------------------------------------
\* C4: the priority rule
\* ------------------------------------------------------------------------
\* C4. Under SpecWindow, when /waiverclaim passes validation for a player
\* with a stored claim, the stored claim becomes the caller's (fresh, not
\* confirmed) exactly when the caller's rank is strictly smaller; otherwise
\* the call is refused and the file is left as it is.
C4_PriorityRule ==
    [][ \A u \in ClaimCallers, p \in Targets, ch \in Channels :
            (/\ WaiverClaimCmd(u, p, ch)
             /\ ClaimAllowed(u, p)
             /\ waivers[p].claim # NoClaim) =>
                IF WaiverOrder[sheet[u]] < waivers[p].claim.team_rank
                THEN /\ waivers'[p].claim =
                            [team_name |-> sheet[u],
                             team_rank |-> WaiverOrder[sheet[u]],
                             claimed_by_id |-> u, origin_channel_id |-> ch,
                             confirmed |-> "None"]
                     /\ reply'.text = "claim: replaced"
                ELSE /\ waivers' = waivers
                     /\ reply'.text \in {"claim: a higher claim exists",
                                    "claim: equal priority"}
      ]_vars

\* A claim of equal rank has just been refused and the stored claim stands.
C4_Witness ==
    /\ reply.text = "claim: equal priority"
    /\ \E p \in Targets : p \in DOMAIN waivers /\ waivers[p].claim # NoClaim

\* ------------------------------------------------------------------------
\* C5: the best claim wins the window
\* ------------------------------------------------------------------------
\* C5. While a player's window is open, a claim that is stored stays stored
\* unless a claim of strictly smaller rank takes its place, so that the claim
\* found at expiry is the best one that passed validation (the earliest
\* among equal ranks).
C5_BestClaimStands ==
    [][ \A p \in Targets :
            (/\ p \in DOMAIN waivers
             /\ waivers[p].claim # NoClaim
             /\ now < waivers[p].expires_at) =>
                /\ p \in DOMAIN waivers'
                /\ waivers'[p].claim # NoClaim
                /\ \/ waivers'[p].claim = waivers[p].claim
                   \/ waivers'[p].claim.team_rank < waivers[p].claim.team_rank
      ]_vars

\* ------------------------------------------------------------------------
\* C8: unclaimed expiry
\* ------------------------------------------------------------------------
\* The players the running pass has finalized with success: expired and
\* unclaimed in the file, and already dropped from the pass's copy.
FinalizedByPass ==
    {p \in DOMAIN waivers :
        /\ waivers[p].expires_at <= loop.now0
        /\ waivers[p].claim = NoClaim
        /\ p \notin DOMAIN loop.data}

\* C8. A step of the loop changes nothing for a record whose window is still
\* open, and the pass ends with every unclaimed expired player it finalized
\* on Free Agent in the sheet, without the Waivers role, with the Free Agent
\* role and without a record.
C8_UnclaimedExpiry ==
    [][ (loop' # loop) =>
            /\ \A p \in DOMAIN waivers :
                  waivers[p].expires_at > now =>
                      /\ p \in DOMAIN waivers' /\ waivers'[p] = waivers[p]
                      /\ sheet'[p] = sheet[p] /\ roles'[p] = roles[p]
            /\ (loop.pc = "run" /\ loop.queue = <<>>) =>
                  \A p \in FinalizedByPass :
                      /\ p \notin DOMAIN waivers'
                      /\ sheet'[p] = FreeAgent
                      /\ roles'[p] \cap {FreeAgent, Waivers} = {FreeAgent}
      ]_vars

\* ------------------------------------------------------------------------
\* C7: award ordering
\* ------------------------------------------------------------------------
\* C7. A step that moves a player's sheet team from Waivers to a real team
\* finds a record whose window has ended and a stored claim of that team
\* that was prompted or confirmed (a claimant can click Yes only on a
\* prompt, so a claim never prompted was never confirmed).
C7_AwardOrdering ==
    [][ \A p \in Targets :
            (sheet[p] = Waivers /\ sheet'[p] \in RealTeams) =>
                /\ p \in DOMAIN waivers
                /\ waivers[p].expires_at <= now
                /\ has_claim(waivers[p])
                /\ waivers[p].claim.team_name = sheet'[p]
                /\ waivers[p].claim.confirmed \in {"True", "PROMPTED"}
      ]_vars

\* ------------------------------------------------------------------------
\* C9: the claimant is prompted once
\* ------------------------------------------------------------------------
\* C9. A pass that loaded a claim marked "PROMPTED" posts no confirmation
\* prompt for it.
C9_PromptedOnce ==
    [][ (loop.pc = "await_prompt" /\ LoopPromptSent /\ views' # views) =>
            loop.data[Head(loop.queue)].claim.confirmed # "PROMPTED"
      ]_vars

\* ------------------------------------------------------------------------
\* C10: declined or rejected claim
\* ------------------------------------------------------------------------
\* C10. Under SpecDecline: the No of the claimant and the Reject of an admin
\* write Free Agent to the sheet; when their role update succeeds the player
\* is on Free Agent in the sheet, without the Waivers role, with the Free
\* Agent role and without a record; no step of either handler puts the
\* player on a real team.
C10_Declined ==
    [][ \A v \in Posted :
            /\ (ConfirmNoApply(v) \/ ClaimRejectApply(v)) =>
                  sheet'[v.p1] = FreeAgent
            /\ (ConfirmNoRoles(v, TRUE) \/ ClaimRejectRoles(v, TRUE)) =>
                  /\ sheet'[v.p1] = FreeAgent
                  /\ v.p1 \notin DOMAIN waivers'
                  /\ roles'[v.p1] \cap {FreeAgent, Waivers} = {FreeAgent}
            /\ (\/ ConfirmNoApply(v) \/ ClaimRejectApply(v)
                \/ \E ok \in BOOLEAN : ConfirmNoRoles(v, ok)
                \/ \E ok \in BOOLEAN : ClaimRejectRoles(v, ok)) =>
                  sheet'[v.p1] \notin RealTeams
      ]_vars

\* An admin's Reject went through for a player who was on waivers.
C10_Witness ==
    /\ reply.text = "reject: finalized"
    /\ sheet["p"] = FreeAgent
    /\ "p" \notin DOMAIN waivers

\* ------------------------------------------------------------------------
\* C11: Waivers is a temporary state
\* ------------------------------------------------------------------------
\* C11. Under SpecUnanswered (the loop keeps running, calls succeed, nobody
\* clicks): a player whose window has ended while the sheet says Waivers
\* eventually has another sheet team.
C11_WaiversTemporary ==
    (/\ "p" \in DOMAIN waivers
     /\ waivers["p"].expires_at <= now
     /\ sheet["p"] = Waivers) ~> (sheet["p"] # Waivers)

\* ------------------------------------------------------------------------
\* C12: an unretired player is on 2-day waivers
\* ------------------------------------------------------------------------
\* C12. Under SpecUnretire (where only /unretire puts p on Waivers, at
\* time 0 or later): before two days have passed, a /waiverclaim for p by a
\* captain of a real team, with p on Waivers in the sheet and holding the
\* Waivers role, leaves a claim stored for p.
C12_UnretiredClaimable ==
    [][ \A u \in ClaimCallers, ch \in Channels :
            (/\ WaiverClaimCmd(u, "p", ch)
             /\ has_captains_role(u) /\ sheet[u] \in RealTeams
             /\ sheet["p"] = Waivers /\ Waivers \in roles["p"]
             /\ now < WaiverTicks) =>
                /\ "p" \in DOMAIN waivers'
                /\ has_claim(waivers'["p"])
      ]_vars

\* ------------------------------------------------------------------------
\* C13: the two-day window
\* ------------------------------------------------------------------------
\* C13. A step that sets a player's sheet team to Waivers leaves a record
\* whose expires_at is at least two days after the time of that step.
C13_TwoDayWindow ==
    [][ \A p \in Targets :
            (sheet[p] # Waivers /\ sheet'[p] = Waivers) =>
                /\ p \in DOMAIN waivers'
                /\ waivers'[p].expires_at >= now + WaiverTicks
      ]_vars

\* ------------------------------------------------------------------------
\* C14: one active substitution per player
\* ------------------------------------------------------------------------
\* The records of a player in data/subs.json that have not expired.
ActiveSubs(u) ==
    [r \in {x \in BagToSet(subs) : x.user_id = u /\ x.expires_at > now_et} |-> subs[r]]

\* C14: at every moment data/subs.json holds at most one unexpired record per
\* player, and a player never holds the team roles of two unexpired
\* substitutions at once, whatever the interleaving of /sub requests and
\* approvals.
C14_OneActiveSub ==
    \A u \in Targets :
        /\ BagCardinality(ActiveSubs(u)) <= 1
        /\ Cardinality({r.team : r \in BagToSet(ActiveSubs(u))} \cap roles[u]) <= 1

\* ------------------------------------------------------------------------
\* C15: substitutions survive restarts
\* ------------------------------------------------------------------------
TimersOf(key) == {t \in tasks : t.kind = "timer" /\ t.key = key}

C16_SubDuration ==
    [][ \A r \in BagToSet(subs') :
            CopiesIn(r, subs') > CopiesIn(r, subs) => r.expires_at >= now_et ]_vars

\* ------------------------------------------------------------------------
\* C17: who may press the buttons
\* ------------------------------------------------------------------------
\* A click by somebody the message is not meant for.
UnauthorizedClick(v, u, b) ==
    \/ /\ ~is_admin_member(u)
       /\ \/ AddClick(v, u, b)
          \/ DropClick(v, u, b)
          \/ SubClick(v, u, b)
          \/ TradeAdminClick(v, u, b)
          \/ ClaimAdminClick(v, u, b)
    \/ /\ u # v.user
       /\ \/ TradeCaptainClick(v, u, b)
          \/ ConfirmClick(v, u, b)

AnyClick(v, u, b) ==
    \/ AddClick(v, u, b)
    \/ DropClick(v, u, b)
    \/ SubClick(v, u, b)
    \/ TradeCaptainClick(v, u, b)
    \/ TradeAdminClick(v, u, b)
    \/ ConfirmClick(v, u, b)
    \/ ClaimAdminClick(v, u, b)

\* C18: once a click on a message has been accepted, every later click on
\* that message, also one that arrives while the handler of the first is
\* suspended, is refused and starts no handler: the view, the sheet, the
\* roles and the files stay as they are.
C18_OneDecision ==
    [][ \A v \in Posted, u \in Clickers, b \in Buttons :
            (v.decided /\ AnyClick(v, u, b)) =>
                /\ UNCHANGED <<sheet, roles, waivers, subs, tasks, views>>
                /\ reply'.text \in {"already decided", "only admins"} ]_vars

\* An admin has pressed a button of a sub request whose approval is waiting
\* for member.add_roles, and was told that the request is decided.
C18_Witness ==
    /\ reply.text = "already decided"
    /\ \E v \in Posted : v.kind = "sub" /\ v.decided /\ v.pc = "grant"

\* ------------------------------------------------------------------------
\* C19: the two stages of a trade
\* ------------------------------------------------------------------------
\* C19: an admin request for a trade is posted only by the Approve of the
\* opposing captain on the captain request of that trade; two players change
\* teams in one step only through the Approve that an admin gave on the
\* admin request for the two; a Decline of the opposing captain posts no
\* admin request and leaves the sheet alone.
C19_TwoStageTrade ==
    [][ /\ \A w \in BagToSet(views') :
              (/\ w.kind = "trade_admin"
               /\ w.pc = "pending"
               /\ CopiesIn(w, views') > CopiesIn(w, views))
              => \E v \in Posted :
                    /\ v.kind = "trade_captain"
                    /\ v.decided
                    /\ v.pc = "approve"
                    /\ v.p1 = w.p1 /\ v.p2 = w.p2
                    /\ CopiesIn(v, views') < CopiesIn(v, views)
        /\ \A a, b \in Targets :
              (a # b /\ sheet'[a] # sheet[a] /\ sheet'[b] # sheet[b])
              => \E v \in Posted :
                    /\ v.kind = "trade_admin"
                    /\ v.decided
                    /\ v.pc = "approve"
                    /\ {v.p1, v.p2} = {a, b}
        /\ \A v \in Posted :
              TradeCaptainDecline(v)
              => /\ sheet' = sheet
                 /\ \A w \in BagToSet(views') :
                       w.kind = "trade_admin" => CopiesIn(w, views') <= CopiesIn(w, views)
      ]_vars

\* A trade of p for q went through both stages and was applied.
C19_Witness ==
    /\ reply.text = "trade approval: applied"
    /\ sheet["p"] = "Rangers"
    /\ sheet["q"] = "Kings"

\* ------------------------------------------------------------------------
\* C20: a trade is validated again when the admin approves
\* ------------------------------------------------------------------------
\* C20: the admin's Approve of a trade changes the sheet or the roles only
\* if the sheet it reads has player1 on the team recorded for player1 and
\* player2 on the team recorded for player2, neither a free agent; and then
\* it writes the swap.
C20_TradeRevalidated ==
    [][ \A v \in Posted :
            TradeApproveApply(v) =>
                IF /\ sheet[v.p1] = v.t1
                   /\ sheet[v.p2] = v.t2
                   /\ ~is_free_agent(sheet[v.p1])
                   /\ ~is_free_agent(sheet[v.p2])
                THEN sheet'[v.p1] = v.t2 /\ sheet'[v.p2] = v.t1
                ELSE UNCHANGED <<sheet, roles>> ]_vars

\* An admin approved a trade after one of the two players had moved: the
\* approval was refused.
C20_Witness ==
    /\ reply.text = "trade approval: team state changed"
    /\ \E m \in Targets : sheet[m] # InitSheet[m]

\* ------------------------------------------------------------------------
\* C21: the global cooldown
\* ------------------------------------------------------------------------
\* A command of u runs in this step.
Handled(u) ==
    /\ u \in DOMAIN handled'
    /\ u \in DOMAIN handled => handled'[u] # handled[u]

\* The answers that turn a command away.
Throttled == {"cooldown: wait", "cooldown: wait (command)"}

\* C21: within one run of the process, two commands of a user who is no
\* admin that run arrived at least 8 seconds apart; an attempt that is
\* turned away runs no command and has not moved the user's timestamp of
\* either dictionary to its own moment; a command of an admin always runs.
C21_GlobalCooldown ==
    [][ /\ \A u \in CooldownUsers \ AdminIds :
              (Handled(u) /\ u \in DOMAIN handled)
              => handled'[u].at - handled[u].at >= THROTTLE_SECONDS
        /\ reply'.text \in Throttled => UNCHANGED handled
        /\ \A u \in CooldownUsers \ AdminIds, checks \in BOOLEAN :
              (SlashCommand(u, checks) /\ reply'.text \in Throttled)
              => UNCHANGED <<gate_last_use, last_use>>
        /\ \A c \in inflight :
              (CommandHandler(c) /\ reply'.text \in Throttled)
              => /\ get_use(gate_last_use', c.user) # c.at
                 /\ UNCHANGED <<gate_last_use, last_use>>
        /\ \A u \in AdminIds, checks \in BOOLEAN :
              SlashCommand(u, checks) => reply'.text \notin Throttled
        /\ \A c \in inflight :
              (CommandHandler(c) /\ c.user \in AdminIds)
              => Handled(c.user) /\ reply'.text = "command: ran"
      ]_vars

\* ------------------------------------------------------------------------
\* C22: no false throttling
\* ------------------------------------------------------------------------
\* No command of u that arrived in the 8 seconds before the moment at has
\* run in this process.
NoneAccepted(u, at) ==
    u \in DOMAIN handled => at - handled[u].at >= THROTTLE_SECONDS

\* C22: a command of a user who is no admin and had no command accepted in
\* the preceding 8 seconds of this process is turned away neither by
\* on_interaction nor by check_cooldown, the first command after the start
\* of the process included.
C22_NoFalseThrottling ==
    [][ /\ \A u \in CooldownUsers \ AdminIds, checks \in BOOLEAN :
              (SlashCommand(u, checks) /\ NoneAccepted(u, monotonic))
              => reply'.text \notin Throttled
        /\ \A c \in inflight :
              (CommandHandler(c) /\ NoneAccepted(c.user, c.at))
              => Handled(c.user) /\ reply'.text = "command: ran"
      ]_vars

\* ------------------------------------------------------------------------
\* C23: access levels match the help table
\* ------------------------------------------------------------------------
\* The commands COMMAND_ACCESS marks as admin-only.
AdminOnly == {cmd \in DOMAIN COMMAND_ACCESS : COMMAND_ACCESS[cmd] = "admin"}

\* u runs the command cmd in this step.
Runs(u, cmd) ==
    CASE cmd = "startweek" -> \E w \in {1, 3} : StartWeekCmd(u, w)
      [] cmd = "clearschedule" -> \E w \in {0, 1} : ClearScheduleCmd(u, w)
      [] cmd = "refresh" -> \E dry_run \in BOOLEAN : RefreshCmd(u, dry_run)
      [] cmd = "unretire" -> \E r \in BOOLEAN, w \in BOOLEAN :
                                UnretireCmd(u, "p", r, w)
      [] cmd = "updateuser" -> \E ok \in BOOLEAN :
                                UpdateUserCmd(u, "p", "Rangers", ok)
      [] cmd = "retire" -> \E ok \in BOOLEAN : RetireCmd(u, "p", ok)
      [] cmd = "settoken" -> SetTokenCmd(u)
      [] cmd = "token" -> TokenCmd(u)

\* The answers that refuse a caller for want of permission.
NoPermission ==
    {"startweek: no permission", "clearschedule: no permission",
     "refresh: admins only", "unretire: only admins", "updateuser: admins only",
     "retire: admins only", "settoken: no permission", "token: no permission"}

\* C23: a command that the help table marks as admin-only refuses a caller
\* who is no admin and changes nothing for that caller, a captain who runs
\* /clearschedule included.
C23_AdminOnly ==
    [][ \A cmd \in AdminOnly, u \in Staff \ AdminIds :
            Runs(u, cmd) =>
                /\ reply'.text \in NoPermission
                /\ UNCHANGED <<sheet, roles, waivers, server>> ]_vars

\* ------------------------------------------------------------------------
\* C24: no lost waiver updates
\* ------------------------------------------------------------------------
\* The record of k in the file was written by another handler since the
\* running pass loaded its copy. The pass changes its copy only for records
\* whose window had ended when it began, by dropping them or by marking
\* their claim "PROMPTED", and writes no file before its end. So a record
\* in the file whose window was open at that moment, or whose claim is
\* answered, and which differs from the pass's copy was written by another
\* handler: by a drop approval, by /waiverclaim, or by Yes.
WrittenDuringPass(k) ==
    \/ /\ waivers[k].expires_at > loop.now0
       /\ k \in DOMAIN loop.data => loop.data[k] # waivers[k]
    \/ /\ has_claim(waivers[k])
       /\ waivers[k].claim.confirmed \in {"True", "False"}
       /\ k \in DOMAIN loop.data
       /\ loop.data[k].claim # waivers[k].claim

\* C24: the step that ends a pass of the loop leaves in the file every
\* record that another handler wrote while the pass was suspended.
C24_NoLostWaiverUpdates ==
    [][ (loop.pc = "run" /\ loop.queue = <<>> /\ loop'.pc = "idle") =>
            \A k \in DOMAIN waivers :
                WrittenDuringPass(k) =>
                    k \in DOMAIN waivers' /\ waivers'[k] = waivers[k]
      ]_vars

\* ------------------------------------------------------------------------
\* C25: resolved waivers stay resolved
\* ------------------------------------------------------------------------
\* C25: a step that puts a record of a player into a file that holds none
\* for that player is the approval of a /drop of that player; no other
\* save, of a handler or of the loop, writes a removed record back.
C25_ResolvedStayResolved ==
    [][ \A k \in Targets :
            (k \notin DOMAIN waivers /\ k \in DOMAIN waivers') =>
                \E v \in Posted : v.p1 = k /\ DropApproveApply(v)
      ]_vars

\* ------------------------------------------------------------------------
\* C26: reject and timeout are free of side effects
\* ------------------------------------------------------------------------
\* The kinds of message a request of /add, /drop, /trade or /sub posts.
RequestKinds == {"add", "drop", "trade_captain", "trade_admin", "sub"}

\* A command posts a request in this step.
RequestStep ==
    \E w \in BagToSet(views') :
        /\ w.kind \in RequestKinds \ {"trade_admin"}
        /\ w.pc = "pending"
        /\ CopiesIn(w, views') > CopiesIn(w, views)

\* Reject or Decline is pressed on a request and accepted in this step.
RejectClickStep ==
    \E v \in Posted :
        /\ v.kind \in RequestKinds
        /\ v.pc = "pending"
        /\ views' = (views (-) SetToBag({v}))
                        (+) SetToBag({[v EXCEPT !.decided = TRUE, !.pc = "reject"]})

\* The handler of Reject or Decline ends in this step.
RejectStep ==
    \E v \in Posted :
        /\ v.kind \in RequestKinds
        /\ v.pc = "reject"
        /\ views' = views (-) SetToBag({v})

\* The buttons of a request time out in this step.
TimeoutStep ==
    /\ now' # now
    /\ \E v \in Posted :
          v.kind \in RequestKinds /\ CopiesIn(v, views') < CopiesIn(v, views)

\* C26: a step that posts a request of /add, /drop, /trade or /sub, that
\* accepts a Reject or a Decline, that ends the handler of one, or that
\* times a request out leaves the sheet, the roles, waivers.json and
\* subs.json as they are.
C26_RejectIsFree ==
    [][ (RequestStep \/ RejectClickStep \/ RejectStep \/ TimeoutStep)
            => UNCHANGED <<sheet, roles, waivers, subs>> ]_vars

\* A request was made and, after time had moved on, rejected or declined;
\* no request is left and the league is as the process found it.
C26_Witness ==
    /\ reply.text \in {"rejected", "declined"}
    /\ views = EmptyBag
    /\ now > 0
    /\ sheet["p"] = "Kings" /\ sheet["q"] = FreeAgent
    /\ subs = EmptyBag /\ DOMAIN waivers = {}

\* ------------------------------------------------------------------------
\* C27: no lost sub records
\* ------------------------------------------------------------------------
\* C27: every step leaves data/subs.json as it is, adds to it the one record
\* of a sub request that is being approved, or takes from it the records of
\* the key of one removal task; the scan of a started process and its save
\* leave the file as it is. So the file holds the records that were added
\* and not removed.
C27_NoLostSubRecords ==
    [][ /\ \/ subs' = subs
           \/ \E v \in Posted :
                 /\ v.kind = "sub"
                 /\ subs' = subs (+) SetToBag({SubRecord(v.p2, v.t1, v.expires_at)})
           \/ \E t \in tasks :
                 subs' = [r \in {x \in BagToSet(subs) : x.key # t.key} |-> subs[r]]
        /\ booted' # booted => subs' = subs
      ]_vars

\* The removal of one record waits for member.remove_roles while the file
\* holds that record next to the record an approval has stored.
C27_Witness ==
    /\ booted
    /\ \E t \in tasks :
          /\ t.pc = "removing"
          /\ \E r \in BagToSet(subs) : r.key = t.key
          /\ \E r \in BagToSet(subs) : r.key # t.key /\ r.expires_at > now_et

====
